---- MODULE Spec2Model ----
(***************************************************************************)
(* Session / connection engine of the EtherNet/IP client                   *)
(* (src/pycomm3/base.py, src/pycomm3/clx.py).                              *)
(*                                                                         *)
(* One driver object is modelled in full (socket, session handle, Forward  *)
(* Open flag, target CID) together with the class-level counter            *)
(* Base._sequence that every driver object of the process shares.          *)
(* Every public method is one action; the outcome of every socket          *)
(* operation and the content of every reply are inputs of the action.      *)
(*                                                                         *)
(* Specifications:                                                         *)
(*   Spec         every public method of the driver                        *)
(*   SpecConn     only open / forward_open / forward_close / close         *)
(*   SpecSession  only open / register_session / un_register_session /     *)
(*                close                                                    *)
(*   SpecRace     two threads inside Base._get_sequence, one step each     *)
(*   SpecCatalog  open / get_tag_list / close against a non-empty          *)
(*                controller symbol table                                  *)
(*   SpecScan     get_tag_list on a connected driver, any symbol table     *)
(*   SpecRead     LogixDriver._read__build_requests on drawn tag lists     *)
(*   SpecWrite    LogixDriver._write__build_requests on drawn tag lists    *)
(*   SpecDemux    the multi-request branch of _send_requests on drawn      *)
(*                reply lists                                              *)
(*   SpecTemplate LogixDriver._read_template on drawn replies              *)
(*   SpecTypes    LogixDriver._get_data_type on drawn templates            *)
(*   SpecArray    LogixDriver.read_array on drawn replies                  *)
(*   SpecBit      read / write of one bit of a tag                         *)
(*   SpecPath     create_tag_rp: symbolic or instance-id segment           *)
(*   SpecIndex    LogixDriver._encode_tag_index on drawn indices           *)
(*   SpecNames    get_tag_list: the names and the filter of one call       *)
(*   SpecAgain    get_tag_list('*') after earlier get_tag_list calls       *)
(*   SpecMsg      the Forward Open message built by forward_open           *)
(*   SpecService  Base.build_multiple_service on drawn sub-requests        *)
(*   SpecChain    LogixDriver._parse_tag_request on member chains          *)
(*   SpecResults  LogixDriver.read: the records returned                   *)
(*   SpecWritten  LogixDriver.write: the records returned                  *)
(*   SpecPages    the start instances of the requests of one tag scan      *)
(***************************************************************************)
EXTENDS Integers, Sequences, FiniteSets, TLC

\* ------------------------------------------------------------------ bounds
MaxHandle  == 2     \* session handles a target may hand out: 1..MaxHandle
MaxReqs    == 2     \* connected requests issued by one public call
MaxDrivers == 2     \* driver objects constructed in the process
SeqWindow  == 3     \* counter values explored on each side of the wrap
MaxSkips   == 2     \* draws in a row that end up in no message
MaxPage    == 2     \* symbol records the controller puts in one reply
MaxTags    == 3     \* tags named in one read() or write() call
MaxFrag    == 3     \* replies to one fragmented transfer
MaxChunk   == 2     \* data bytes in one reply of a fragmented transfer
MaxTemplates == 3    \* templates (structure types) the controller holds
MaxDims    == 2     \* indices between the brackets of one array tag
MaxSubs    == 3     \* sub-requests in one Multiple Service Packet
MaxRpLen   == 3     \* bytes of one sub-request
MaxMembers == 3     \* member names in one requested tag
MaxCalls   == 2     \* get_tag_list calls made before the one studied

\* ------------------------------------------------------- program constants
SeqLimit == 65535   \* base.py:152  "if Base._sequence < 65535"
UintMax  == 65535   \* largest value of the 16-bit instance field (pack_uint)
MorePackets == 6    \* INSUFFICIENT_PACKETS: reply status "more available"
MinVerInstanceIds == 21   \* MIN_VER_INSTANCE_IDS

\* Python's None, for the fields that hold either None or a number.
None == -1

\* Process ids the interpreter may run under (os.getpid()).
PIDs == {1, 65534, 65535, 131070}

Handles == 1..MaxHandle

\* Target connection ids carried by Forward Open replies (opaque to the
\* driver, which only stores and echoes them).
Cids == {1}

\* Outcome of one request: the socket raises in send() or in receive()
\* (Base._send and Base._receive turn both into CommError), a reply with
\* status success, a reply with an error status.
Outcomes == {"io_fail", "ok", "bad"}

\* Instance ids a controller may give to its symbols (32-bit values).
ScanIds == {1, 2, 65535, 65536}

VARIABLES
    connection_size,      \* self.connection_size
    read_tags,            \* planner: the parsed requests of a read() call
    read_requests,        \* planner: the requests built for them
    read_results,         \* planner: the result given to each requested name
    write_tags,           \* planner: the parsed requests of a write() call
    write_requests,       \* planner: the requests built for them
    sub_replies,          \* the sub-replies of a Multiple Service Packet
    multi_results,        \* the results _send_requests makes of them
    call,                 \* the internal function applied ("none" before)
    args,                 \* its arguments and what its environment answers
    result,               \* what it did and returned
    symbols,              \* the controller's symbol table (instance ids)
    tags,                 \* self._tags: the cached tag definitions
    ret_tags,             \* the list the last get_tag_list() returned
    sock,                 \* self._sock: "None", "unconnected", "connected"
    connection_opened,    \* self._connection_opened
    session,              \* self._session: 0, a handle, or None
    target_is_connected,  \* self._target_is_connected
    target_cid,           \* self._target_cid
    sequence,             \* Base._sequence (class attribute)
    pid,                  \* os.getpid()
    ndrivers,             \* number of Base objects constructed so far
    op,                   \* the last public method called
    trace,                \* requests handed to the socket by the last call
    io_failed,            \* a socket send/receive failed in the last call
    exc,                  \* exception the last call raised ("none" if none)
    ret,                  \* what the last call returned
    errs,                 \* errors collected by the last close()
    hist,                 \* history of the sequence numbers drawn/emitted
    fo_live,              \* history: a Forward Open reply succeeded and no
                          \*   Forward Close reply succeeded / clean_up since
    registered,           \* history: Register Session succeeded and no
                          \*   UnRegister was written to the socket since
    orphan,               \* history: the last call handed a connected
                          \*   message to the socket while ~fo_live
    fo_false,             \* the last call saw forward_open() return False
    reply,                \* the Register Session reply the last call received
    bad_reply,            \* the last call received a reply with error status
    after_fail,           \* the last call handed a request to the socket
                          \*   after a socket send/receive had failed in it
    pc, tmp, rv           \* SpecRace: per-thread position, loaded value,
                          \*   value returned by _get_sequence

planvars == <<connection_size, read_tags, read_requests, read_results,
              write_tags, write_requests, sub_replies, multi_results,
              call, args, result>>

vars == <<connection_size, read_tags, read_requests, read_results,
          write_tags, write_requests, sub_replies, multi_results, call, args, result,
          symbols, tags, ret_tags, sock, connection_opened, session, target_is_connected, target_cid,
          sequence, pid, ndrivers, op, trace, io_failed, exc, ret, errs,
          hist, fo_live, registered, orphan, fo_false, reply, bad_reply,
          after_fail, pc, tmp, rv>>

Threads == {1, 2}


\* ------------------------------------------------------------ driver record
\* The methods below are written as functions from the driver's state (a
\* record d holding the instance fields, the class counter and what the call
\* has done so far) to the driver's state after the method.

NoHist == [prev |-> None, cur |-> None, skipped |-> 0, wrapped |-> FALSE,
           pend_skips |-> 0, pend_wrap |-> FALSE, last |-> None]

\* No Register Session reply was received.
NoReply == [received |-> FALSE, ok |-> FALSE, session |-> None]

Drv == [tags |-> tags, ret_tags |-> <<>>, sock |-> sock, connection_opened |-> connection_opened,
        session |-> session, target_is_connected |-> target_is_connected,
        target_cid |-> target_cid, sequence |-> sequence,
        trace |-> <<>>, io_failed |-> FALSE, exc |-> "none", ret |-> "None",
        errs |-> <<>>, hist |-> hist, fo_live |-> fo_live,
        registered |-> registered, orphan |-> FALSE, fo_false |-> FALSE,
        reply |-> NoReply, bad_reply |-> FALSE, after_fail |-> FALSE]

\* Variant of _get_sequence that advances the counter by two.
get_sequence_by_two(s, p) ==
    IF s < SeqLimit THEN s + 2 ELSE p % SeqLimit

\* Base._get_sequence, as one step: the new value of Base._sequence, which is
\* also the value returned.
get_sequence(s, p) ==
    IF s < SeqLimit THEN s + 1 ELSE p % SeqLimit

\* A draw of a sequence number that ends up in no message (Base.__init__ of
\* a further driver, a request that fails before it is handed to the socket).
DrawSilent(h, s, v) ==
    [h EXCEPT !.pend_skips = @ + 1,
              !.pend_wrap  = @ \/ ~(s < SeqLimit),
              !.last = v]

\* A draw whose value v is put in a connected message.
DrawEmit(h, s, v) ==
    [prev |-> h.cur, cur |-> v,
     skipped |-> h.pend_skips,
     wrapped |-> h.pend_wrap \/ ~(s < SeqLimit),
     pend_skips |-> 0, pend_wrap |-> FALSE, last |-> v]

\* Base.build_header: pack_dint(self._session) raises for None and the
\* method turns that into CommError.
build_header_fails(d) == d.session = None

\* Base.build_header + Base._send + Base._receive for one request of the
\* given kind: o is what the socket and the target do with it.
transmit(d, kind, o) ==
    IF build_header_fails(d)
    THEN [d EXCEPT !.exc = "CommError:encode"]
    ELSE IF d.sock = "None"
    THEN [d EXCEPT !.exc = "CommError"]     \* None has no send()
    ELSE LET failed == d.sock # "connected" \/ o = "io_fail"
             d1 == [d EXCEPT
                      !.trace = Append(@, kind),
                      !.orphan = @ \/ (kind = "send_unit_data" /\ ~d.fo_live),
                      !.after_fail = @ \/ d.io_failed,
                      !.bad_reply = @ \/ (~failed /\ o = "bad"),
                      !.registered = IF kind = "unregister_session" /\ ~failed
                                     THEN FALSE ELSE @]
         IN  IF failed
             THEN [d1 EXCEPT !.io_failed = TRUE, !.exc = "CommError"]
             ELSE d1

\* RequestPacket.send(): builds the header, sends, receives.
request_send(d, kind, o) == transmit(d, kind, o)

\* Variant of register_session that stores the handle of the reply header
\* whatever the status of the reply.
register_session_stores_always(d, o, h) ==
    IF d.session # 0 /\ d.session # None
    THEN [d EXCEPT !.ret = "session"]
    ELSE LET r == request_send([d EXCEPT !.session = 0],
                               "register_session", o)
             a == [r EXCEPT !.reply = [received |-> TRUE, ok |-> o = "ok",
                                       session |-> h]]
         IN  IF r.exc # "none" THEN r
             ELSE IF o = "ok"
             THEN [a EXCEPT !.session = h, !.registered = TRUE,
                            !.ret = "session"]
             ELSE [a EXCEPT !.session = h, !.ret = "None"]

\* Base.register_session
register_session(d, o, h) ==
    IF d.session # 0 /\ d.session # None
    THEN [d EXCEPT !.ret = "session"]
    ELSE LET r == request_send([d EXCEPT !.session = 0],
                               "register_session", o)
             a == [r EXCEPT !.reply = [received |-> TRUE, ok |-> o = "ok",
                                       session |-> h]]
         IN  IF r.exc # "none" THEN r
             ELSE IF o = "ok"
             THEN [a EXCEPT !.session = h, !.registered = TRUE,
                            !.ret = "session"]
             ELSE [a EXCEPT !.ret = "None"]

\* Variant of un_register_session that keeps the session handle.
un_register_session_keeps_handle(d, o) ==
    LET r == request_send(d, "unregister_session", o)
    IN  IF r.exc # "none" THEN r
        ELSE [r EXCEPT !.ret = "None"]

\* Base.un_register_session
un_register_session(d, o) ==
    LET r == request_send(d, "unregister_session", o)
    IN  IF r.exc # "none" THEN r
        ELSE [r EXCEPT !.session = None, !.ret = "None"]

\* Base.forward_open
forward_open(d, o, cid) ==
    IF d.target_is_connected
    THEN [d EXCEPT !.ret = "True"]
    ELSE IF d.session = 0
    THEN [d EXCEPT !.exc = "CommError:session"]
    ELSE LET r == request_send(d, "forward_open", o)
         IN  IF r.exc # "none" THEN r
             ELSE IF o = "ok"
             THEN [r EXCEPT !.target_cid = cid,
                            !.target_is_connected = TRUE,
                            !.fo_live = TRUE, !.ret = "True"]
             ELSE [r EXCEPT !.ret = "False", !.fo_false = TRUE]

\* Variant of forward_close that leaves _target_is_connected set after a
\* successful reply.
forward_close_keeps_flag(d, o) ==
    IF d.session = 0
    THEN [d EXCEPT !.exc = "CommError:session"]
    ELSE LET r == request_send(d, "forward_close", o)
         IN  IF r.exc # "none" THEN r
             ELSE IF o = "ok"
             THEN [r EXCEPT !.fo_live = FALSE, !.ret = "True"]
             ELSE [r EXCEPT !.ret = "False"]

\* Base.forward_close
forward_close(d, o) ==
    IF d.session = 0
    THEN [d EXCEPT !.exc = "CommError:session"]
    ELSE LET r == request_send(d, "forward_close", o)
         IN  IF r.exc # "none" THEN r
             ELSE IF o = "ok"
             THEN [r EXCEPT !.target_is_connected = FALSE,
                            !.fo_live = FALSE, !.ret = "True"]
             ELSE [r EXCEPT !.ret = "False"]

\* Variant of clean_up that leaves the session handle as it is.
clean_up_keeps_session(d) ==
    [d EXCEPT !.sock = "None", !.target_is_connected = FALSE,
              !.connection_opened = FALSE,
              !.fo_live = FALSE, !.registered = FALSE]

\* Base.clean_up
clean_up(d) ==
    [d EXCEPT !.sock = "None", !.target_is_connected = FALSE,
              !.session = 0, !.connection_opened = FALSE,
              !.fo_live = FALSE, !.registered = FALSE]

\* Variant of close in which an error of the first two steps also skips the
\* socket close.
close_skips_socket(d, o1, o2, sc) ==
    LET a  == IF d.target_is_connected THEN forward_close(d, o1) ELSE d
        b  == IF a.exc # "none" THEN a
              ELSE IF a.session # 0 THEN un_register_session(a, o2)
              ELSE a
        e1 == IF b.exc # "none" THEN <<b.exc>> ELSE <<>>
        do == b.sock # "None" /\ e1 = <<>>
        c  == IF do
              THEN [b EXCEPT !.trace = Append(@, "sock.close")]
              ELSE b
        e2 == IF do /\ sc = "fail"
              THEN <<"SocketError">> ELSE <<>>
        f  == clean_up(c)
    IN  [f EXCEPT !.errs = e1 \o e2,
                  !.exc  = IF e1 \o e2 # <<>> THEN "CommError" ELSE "none",
                  !.ret  = "None"]

\* Base.close: o1 is the outcome of the Forward Close, o2 of the UnRegister
\* Session, sc of the socket's close().
close(d, o1, o2, sc) ==
    LET a  == IF d.target_is_connected THEN forward_close(d, o1) ELSE d
        b  == IF a.exc # "none" THEN a
              ELSE IF a.session # 0 THEN un_register_session(a, o2)
              ELSE a
        e1 == IF b.exc # "none" THEN <<b.exc>> ELSE <<>>
        c  == IF b.sock # "None"
              THEN [b EXCEPT !.trace = Append(@, "sock.close")]
              ELSE b
        e2 == IF b.sock # "None" /\ sc = "fail"
              THEN <<"SocketError">> ELSE <<>>
        f  == clean_up(c)
    IN  [f EXCEPT !.errs = e1 \o e2,
                  !.exc  = IF e1 \o e2 # <<>> THEN "CommError" ELSE "none",
                  !.ret  = "None"]

\* Base.open: oc is the outcome of the socket's connect(), o and h the
\* outcome of the Register Session request and the handle in its reply.
open(d, oc, o, h) ==
    IF d.connection_opened
    THEN [d EXCEPT !.ret = "None"]
    ELSE IF oc = "fail"
    THEN [d EXCEPT !.sock = "unconnected",
                   !.trace = Append(@, "sock.connect"),
                   !.exc = "CommError"]
    ELSE LET d1 == [d EXCEPT !.sock = "connected",
                             !.trace = Append(@, "sock.connect"),
                             !.connection_opened = TRUE]
             r  == register_session(d1, o, h)
         IN  IF r.exc # "none" THEN [r EXCEPT !.exc = "CommError"]
             ELSE IF r.ret = "None" THEN [r EXCEPT !.ret = "False"]
             ELSE [r EXCEPT !.ret = "True"]


\* ------------------------------------------------------ connected requests
\* The counter may be drawn from only while it is within SeqWindow of 0 or
\* of the wrap: this keeps the explored counter values finite.
InWindow(s) == s < SeqWindow \/ s >= SeqLimit - SeqWindow

\* Guard of every action that draws sequence numbers: MaxSkips bounds how
\* many draws in a row that went into no message are explored.
CanDraw == InWindow(sequence) /\ hist.pend_skips < MaxSkips

\* Record in hist a draw made from counter value s that returned v: the
\* number was emitted when the call r handed one more message to the socket
\* than d had.
note_draw(d, r, s, v) ==
    [r EXCEPT !.hist = IF Len(r.trace) > Len(d.trace)
                       THEN DrawEmit(d.hist, s, v)
                       ELSE DrawSilent(d.hist, s, v)]

\* A send_unit_data request packet: takes the next sequence number, then is
\* sent with RequestPacket.send().
unit_request(d, p, o) ==
    LET v == get_sequence(d.sequence, p)
        r == request_send([d EXCEPT !.sequence = v], "send_unit_data", o)
    IN  note_draw(d, r, d.sequence, v)

\* Base.send_unit_data (legacy path) preceded by the caller's
\* pack_uint(self._get_sequence()).
send_unit_data(d, p, o) ==
    LET v == get_sequence(d.sequence, p)
        r == transmit([d EXCEPT !.sequence = v], "send_unit_data", o)
    IN  note_draw(d, r, d.sequence, v)

\* with_forward_open: the decorator's own steps.  self.__log is looked up
\* from a module-level function, where the name is not mangled to
\* _LogixDriver__log, so the lookup raises AttributeError before the
\* DataError is built.
with_forward_open(d, o, cid) ==
    LET r == forward_open(d, o, cid)
    IN  IF r.exc # "none" THEN r
        ELSE IF r.ret = "False" THEN [r EXCEPT !.exc = "AttributeError"]
        ELSE r

\* LogixDriver.get_plc_name / get_plc_info (same control flow): one
\* connected request; any exception or bad reply becomes DataError.
get_attributes(d, p, fo, cid, o) ==
    LET w == with_forward_open(d, fo, cid)
        r == unit_request(w, p, o)
    IN  IF w.exc # "none" THEN w
        ELSE IF r.exc # "none" \/ o # "ok" THEN [r EXCEPT !.exc = "DataError"]
        ELSE [r EXCEPT !.ret = "info"]

\* The elements of a set of numbers in ascending order.
RECURSIVE AscendingSeq(_)
AscendingSeq(S) ==
    IF S = {} THEN <<>>
    ELSE LET m == CHOOSE x \in S : \A y \in S : x <= y
         IN  <<m>> \o AscendingSeq(S \ {m})

\* The controller's answer to Get Instance Attributes List: the records of
\* the symbols with instance >= start in ascending order, at most k of them,
\* with status MorePackets when records are left over and 0 otherwise.
symbol_reply(table, start, k) ==
    LET avail == AscendingSeq({i \in table : i >= start})
        n     == IF Len(avail) > k THEN k ELSE Len(avail)
    IN  [records |-> SubSeq(avail, 1, n),
         status  |-> IF Len(avail) > k THEN MorePackets ELSE 0]

\* pack_uint: a 16-bit field, values outside 0..65535 are rejected.
pack_uint_fails(v) == v < 0 \/ v > UintMax

\* LogixDriver._parse_instance_attribute_list: the records are appended to
\* tag_list; the result is the instance to continue from, or -1.
parse_instance_attribute_list(rep, tag_list) ==
    LET instance == IF rep.records = <<>> THEN 0
                    ELSE rep.records[Len(rep.records)]
    IN  [tag_list |-> tag_list \o rep.records,
         last_instance |-> IF rep.status = 0 THEN -1
                           ELSE IF rep.status = MorePackets
                           THEN instance + 1
                           ELSE -1]

\* A reply-level status that is neither success nor "more packets".
OtherStatus == 4

\* The reply to one Get Instance Attributes List request: o = "bad" is a
\* reply that carries OtherStatus and no records.
scan_reply(table, start, k, o) ==
    IF o = "bad" THEN [records |-> <<>>, status |-> OtherStatus]
    ELSE symbol_reply(table, start, k)

\* bool(response) of a send_unit_data reply: the reply-level status is
\* success or "more packets".
response_valid(status) == status \in {0, MorePackets}

\* Variant of _get_instance_attribute_list_service without the
\* "if not response" test: every reply is handed to the parser.
RECURSIVE get_instance_attribute_list_service_unchecked(_, _, _, _, _, _, _)
get_instance_attribute_list_service_unchecked(d, p, os, table, k, last_instance, tag_list) ==
    IF last_instance = -1
    THEN [d EXCEPT !.ret = "tags", !.ret_tags = tag_list]
    ELSE IF pack_uint_fails(last_instance)
    THEN [d EXCEPT !.exc = "DataError"]
    ELSE LET o == IF os = <<>> THEN "ok" ELSE Head(os)
             r == unit_request(d, p, o)
             a == parse_instance_attribute_list(
                      scan_reply(table, last_instance, k, o), tag_list)
         IN  IF r.exc # "none"
             THEN [r EXCEPT !.exc = "DataError"]
             ELSE get_instance_attribute_list_service_unchecked(
                      r, p, IF os = <<>> THEN os ELSE Tail(os), table, k,
                      a.last_instance, a.tag_list)

\* LogixDriver._get_instance_attribute_list_service: one request per page.
\* os lists what the socket and the target do with the first requests (the
\* requests after them are answered); table and k are the controller's
\* symbol table and the number of records it puts in one reply.
RECURSIVE get_instance_attribute_list_service(_, _, _, _, _, _, _)
get_instance_attribute_list_service(d, p, os, table, k, last_instance, tag_list) ==
    IF last_instance = -1
    THEN [d EXCEPT !.ret = "tags", !.ret_tags = tag_list]
    ELSE IF pack_uint_fails(last_instance)
    THEN [d EXCEPT !.exc = "DataError"]
    ELSE LET o   == IF os = <<>> THEN "ok" ELSE Head(os)
             r   == unit_request(d, p, o)
             rsp == scan_reply(table, last_instance, k, o)
             a   == parse_instance_attribute_list(rsp, tag_list)
         IN  IF r.exc # "none" \/ ~response_valid(rsp.status)
             THEN [r EXCEPT !.exc = "DataError"]
             ELSE get_instance_attribute_list_service(
                      r, p, IF os = <<>> THEN os ELSE Tail(os), table, k,
                      a.last_instance, a.tag_list)

\* LogixDriver.get_tag_list (program=None, cache=True): the scanned list is
\* returned and stored in self._tags.
get_tag_list(d, p, fo, cid, os, table, k) ==
    LET w == with_forward_open(d, fo, cid)
        r == get_instance_attribute_list_service(w, p, os, table, k,
                                                 0, <<>>)
    IN  IF w.exc # "none" THEN w
        ELSE IF r.exc # "none" THEN r
        ELSE [r EXCEPT !.tags = {r.ret_tags[i] : i \in 1..Len(r.ret_tags)}]

\* LogixDriver._send_requests: every request of the list is sent; an
\* exception of one request becomes the result of its tags.
RECURSIVE send_requests(_, _, _)
send_requests(d, p, os) ==
    IF os = <<>> THEN [d EXCEPT !.ret = "results"]
    ELSE LET r == unit_request(d, p, Head(os))
         IN  send_requests([r EXCEPT !.exc = "none"], p, Tail(os))

\* LogixDriver.read / LogixDriver.write
read_write(d, p, fo, cid, os) ==
    LET w == with_forward_open(d, fo, cid)
    IN  IF w.exc # "none" THEN w
        ELSE send_requests(w, p, os)

\* LogixDriver._read_tag_multi (legacy): one sequence number and one
\* send_unit_data per request list; a bad reply raises DataError.
RECURSIVE read_tag_multi(_, _, _)
read_tag_multi(d, p, os) ==
    IF os = <<>> THEN [d EXCEPT !.ret = "replies"]
    ELSE LET r == send_unit_data(d, p, Head(os))
         IN  IF r.exc # "none" THEN r
             ELSE IF Head(os) # "ok" THEN [r EXCEPT !.exc = "DataError"]
             ELSE read_tag_multi(r, p, Tail(os))

\* LogixDriver.read_tag (legacy)
read_tag(d, p, fo, cid, os) ==
    LET w == forward_open(d, fo, cid)
    IN  IF w.exc # "none" THEN w
        ELSE IF w.ret = "False" THEN [w EXCEPT !.exc = "DataError"]
        ELSE read_tag_multi(w, p, os)

\* Base.__init__ of a further driver object: the class counter is reseeded
\* from the pid when it is 0 and advanced with _get_sequence otherwise.
init_sequence(s, p) ==
    IF s = 0 THEN p ELSE get_sequence(s, p)

\* ------------------------------------------------------------------ actions
ReqLists == UNION {[1..n -> Outcomes] : n \in 1..MaxReqs}

\* Outcome lists for a loop that stops at the first request that fails: the
\* requests after it are never built, so only the last outcome may differ
\* from "ok".
StopLists == {os \in ReqLists : \A i \in 1..(Len(os) - 1) : os[i] = "ok"}

\* Faults of a tag scan: none, or the first requests are answered and the
\* next one fails.
FaultLists == {<<>>} \cup {os \in StopLists : os[Len(os)] # "ok"}

\* UnRegister Session has no reply: the send raises or it does not.
UnregOutcomes == {"io_fail", "ok"}

Commit(r, name) ==
    /\ tags' = r.tags
    /\ ret_tags' = r.ret_tags
    /\ sock' = r.sock
    /\ connection_opened' = r.connection_opened
    /\ session' = r.session
    /\ target_is_connected' = r.target_is_connected
    /\ target_cid' = r.target_cid
    /\ sequence' = r.sequence
    /\ trace' = r.trace
    /\ io_failed' = r.io_failed
    /\ exc' = r.exc
    /\ ret' = r.ret
    /\ errs' = r.errs
    /\ hist' = r.hist
    /\ fo_live' = r.fo_live
    /\ registered' = r.registered
    /\ orphan' = r.orphan
    /\ fo_false' = r.fo_false
    /\ reply' = r.reply
    /\ bad_reply' = r.bad_reply
    /\ after_fail' = r.after_fail
    /\ op' = name
    /\ UNCHANGED <<symbols, pid, pc, tmp, rv>>
    /\ UNCHANGED planvars

\* No read() or write() is being planned and no reply demultiplexed.
\* No internal function is under study.
NoCall == call = "none" /\ args = <<>> /\ result = <<>>

InitPlanner ==
    /\ read_tags = <<>>
    /\ read_requests = <<>>
    /\ read_results = <<>>
    /\ write_tags = <<>>
    /\ write_requests = <<>>
    /\ sub_replies = <<>>
    /\ multi_results = <<>>
    /\ NoCall

\* The driver object after construction (init_info=False, init_tags=False).
InitDriver ==
    /\ tags = {}
    /\ ret_tags = <<>>
    /\ ndrivers = 1
    /\ sock = "None"
    /\ connection_opened = FALSE
    /\ session = 0
    /\ target_is_connected = FALSE
    /\ target_cid = None
    /\ op = "__init__"
    /\ trace = <<>>
    /\ io_failed = FALSE
    /\ exc = "none"
    /\ ret = "None"
    /\ errs = <<>>
    /\ hist = NoHist
    /\ fo_live = FALSE
    /\ registered = FALSE
    /\ orphan = FALSE
    /\ fo_false = FALSE
    /\ reply = NoReply
    /\ bad_reply = FALSE
    /\ after_fail = FALSE
    /\ pc = [t \in Threads |-> "idle"]
    /\ tmp = [t \in Threads |-> 0]
    /\ rv = [t \in Threads |-> None]

Init ==
    /\ connection_size = 4000      \* large_packets=True
    /\ InitPlanner
    /\ pid \in PIDs
    /\ sequence = pid              \* the first Base.__init__
    /\ symbols = {}                \* a controller without user tags
    /\ InitDriver

\* Inputs of a call.  An input the call never looks at in the current state
\* (the reply to a Forward Open that is not sent because the connection is
\* already open, ...) is fixed to one value instead of being enumerated.
IfUsed(used, S, dflt) == IF used THEN S ELSE {dflt}

FoOutcomes == IfUsed(~target_is_connected /\ session # 0, Outcomes, "ok")
FoCids     == IfUsed(~target_is_connected /\ session # 0, Cids, 1)

\* A scan of n symbols issues at most n requests (one when n = 0).
ScanFaults == {os \in FaultLists : Len(os) <= Cardinality(symbols) + 1}

Open ==
    /\ \E oc \in IfUsed(~connection_opened, {"ok", "fail"}, "ok"),
          o  \in IfUsed(~connection_opened, Outcomes, "ok"),
          h  \in IfUsed(~connection_opened, Handles, 1) :
           Commit(open(Drv, oc, o, h), "open")
    /\ UNCHANGED ndrivers

Close ==
    /\ \E o1 \in IfUsed(target_is_connected, Outcomes, "ok"),
          o2 \in IfUsed(session # 0, UnregOutcomes, "ok"),
          sc \in IfUsed(sock # "None", {"ok", "fail"}, "ok") :
           Commit(close(Drv, o1, o2, sc), "close")
    /\ UNCHANGED ndrivers

RegisterSession ==
    /\ \E o \in IfUsed(session = 0 \/ session = None, Outcomes, "ok"),
          h \in IfUsed(session = 0 \/ session = None, Handles, 1) :
           Commit(register_session(Drv, o, h), "register_session")
    /\ UNCHANGED ndrivers

UnRegisterSession ==
    /\ \E o \in UnregOutcomes :
           Commit(un_register_session(Drv, o), "un_register_session")
    /\ UNCHANGED ndrivers

ForwardOpen ==
    /\ \E o \in FoOutcomes, cid \in FoCids :
           Commit(forward_open(Drv, o, cid), "forward_open")
    /\ UNCHANGED ndrivers

ForwardClose ==
    /\ \E o \in IfUsed(session # 0, Outcomes, "ok") :
           Commit(forward_close(Drv, o), "forward_close")
    /\ UNCHANGED ndrivers

GetPlcName ==
    /\ CanDraw
    /\ \E fo \in FoOutcomes, cid \in FoCids, o \in Outcomes :
           Commit(get_attributes(Drv, pid, fo, cid, o), "get_plc_name")
    /\ UNCHANGED ndrivers

GetPlcInfo ==
    /\ CanDraw
    /\ \E fo \in FoOutcomes, cid \in FoCids, o \in Outcomes :
           Commit(get_attributes(Drv, pid, fo, cid, o), "get_plc_info")
    /\ UNCHANGED ndrivers

GetTagList ==
    /\ CanDraw
    /\ \E fo \in FoOutcomes, cid \in FoCids, os \in ScanFaults,
          k \in IfUsed(symbols # {}, 1..MaxPage, 1) :
           Commit(get_tag_list(Drv, pid, fo, cid, os, symbols, k),
                  "get_tag_list")
    /\ UNCHANGED ndrivers

Read ==
    /\ CanDraw
    /\ \E fo \in FoOutcomes, cid \in FoCids, os \in ReqLists :
           Commit(read_write(Drv, pid, fo, cid, os), "read")
    /\ UNCHANGED ndrivers

Write ==
    /\ CanDraw
    /\ \E fo \in FoOutcomes, cid \in FoCids, os \in ReqLists :
           Commit(read_write(Drv, pid, fo, cid, os), "write")
    /\ UNCHANGED ndrivers

ReadTag ==
    /\ CanDraw
    /\ \E fo \in FoOutcomes, cid \in FoCids, os \in StopLists :
           Commit(read_tag(Drv, pid, fo, cid, os), "read_tag")
    /\ UNCHANGED ndrivers

\* Construction of a further driver object in the same process.
NewDriver ==
    /\ ndrivers < MaxDrivers
    /\ CanDraw \/ sequence = 0
    /\ ndrivers' = ndrivers + 1
    /\ Commit([Drv EXCEPT
                 !.sequence = init_sequence(sequence, pid),
                 !.hist = IF sequence = 0
                          THEN [hist EXCEPT !.pend_wrap = TRUE]
                          ELSE DrawSilent(hist, sequence,
                                          get_sequence(sequence, pid))],
              "__init__")

Next ==
    \/ Open
    \/ Close
    \/ RegisterSession
    \/ UnRegisterSession
    \/ ForwardOpen
    \/ ForwardClose
    \/ GetPlcName
    \/ GetPlcInfo
    \/ GetTagList
    \/ Read
    \/ Write
    \/ ReadTag
    \/ NewDriver

Spec == Init /\ [][Next]_vars

\* Only the connection-management calls.
NextConn == Open \/ ForwardOpen \/ ForwardClose \/ Close

SpecConn == Init /\ [][NextConn]_vars

\* Only the session-management calls.
NextSession == Open \/ RegisterSession \/ UnRegisterSession \/ Close

SpecSession == Init /\ [][NextSession]_vars

\* The calls that fill and would clear the tag catalog, against a controller
\* that has two user tags.
InitCatalog ==
    /\ connection_size = 4000
    /\ InitPlanner
    /\ pid \in PIDs
    /\ sequence = pid
    /\ symbols = {1, 2}
    /\ InitDriver

NextCatalog == Open \/ GetTagList \/ Close

SpecCatalog == InitCatalog /\ [][NextCatalog]_vars

\* Tag scans of a driver that is open and connected (the state after open()
\* and forward_open() succeeded), against every symbol table.
InitScan ==
    /\ connection_size = 4000
    /\ InitPlanner
    /\ symbols \in SUBSET ScanIds
    /\ tags = {}
    /\ ret_tags = <<>>
    /\ pid \in PIDs
    /\ sequence = pid
    /\ ndrivers = 1
    /\ sock = "connected"
    /\ connection_opened = TRUE
    /\ session = 1
    /\ target_is_connected = TRUE
    /\ target_cid = 1
    /\ op = "forward_open"
    /\ trace = <<"forward_open">>
    /\ io_failed = FALSE
    /\ exc = "none"
    /\ ret = "True"
    /\ errs = <<>>
    /\ hist = NoHist
    /\ fo_live = TRUE
    /\ registered = TRUE
    /\ orphan = FALSE
    /\ fo_false = FALSE
    /\ reply = NoReply
    /\ bad_reply = FALSE
    /\ after_fail = FALSE
    /\ pc = [t \in Threads |-> "idle"]
    /\ tmp = [t \in Threads |-> 0]
    /\ rv = [t \in Threads |-> None]

NextScan == GetTagList

SpecScan == InitScan /\ [][NextScan]_vars


\* ------------------------------------------------- _get_sequence, stepwise
\* Two threads, each using its own driver, inside Base._get_sequence.  The
\* interpreter may switch threads between any two of: the comparison
\* "Base._sequence < 65535", the load and the store of "Base._sequence += 1",
\* the assignment "Base._sequence = getpid() % 65535", and the read of
\* "return Base._sequence".

Step(t, to) ==
    pc' = [pc EXCEPT ![t] = to]

RaceFrame ==
    UNCHANGED <<connection_size, read_tags, read_requests, read_results,
                write_tags, write_requests, sub_replies, multi_results, call, args, result,
                symbols, tags, ret_tags, sock, connection_opened, session, target_is_connected,
                target_cid, pid, ndrivers, op, trace, io_failed, exc, ret,
                errs, hist, fo_live, registered, orphan, fo_false, reply,
                bad_reply, after_fail>>

SeqCall(t) ==
    /\ pc[t] = "idle"
    /\ InWindow(sequence)
    /\ sequence <= SeqLimit + SeqWindow \/ sequence = pid
    /\ Step(t, "compare")
    /\ UNCHANGED <<sequence, tmp, rv>>
    /\ RaceFrame

SeqCompare(t) ==
    /\ pc[t] = "compare"
    /\ Step(t, IF sequence < SeqLimit THEN "load" ELSE "reset")
    /\ UNCHANGED <<sequence, tmp, rv>>
    /\ RaceFrame

SeqLoad(t) ==
    /\ pc[t] = "load"
    /\ tmp' = [tmp EXCEPT ![t] = sequence]
    /\ Step(t, "store")
    /\ UNCHANGED <<sequence, rv>>
    /\ RaceFrame

SeqStore(t) ==
    /\ pc[t] = "store"
    /\ sequence' = tmp[t] + 1
    /\ Step(t, "return")
    /\ UNCHANGED <<tmp, rv>>
    /\ RaceFrame

SeqReset(t) ==
    /\ pc[t] = "reset"
    /\ sequence' = pid % SeqLimit
    /\ Step(t, "return")
    /\ UNCHANGED <<tmp, rv>>
    /\ RaceFrame

SeqReturn(t) ==
    /\ pc[t] = "return"
    /\ rv' = [rv EXCEPT ![t] = sequence]
    /\ Step(t, "idle")
    /\ UNCHANGED <<sequence, tmp>>
    /\ RaceFrame

NextRace ==
    \E t \in Threads :
        \/ SeqCall(t)
        \/ SeqCompare(t)
        \/ SeqLoad(t)
        \/ SeqStore(t)
        \/ SeqReset(t)
        \/ SeqReturn(t)

SpecRace == Init /\ [][NextRace]_vars


\* -------------------------------------------------------------- read planner
\* The tag catalog the planner consults: A is a DINT tag, S a tag of a
\* structured type whose template has structure_size 88.
PlanTags == {"A", "S"}

tag_info(t) ==
    IF t = "A" THEN [tag_type |-> "atomic", size |-> 4]
    ELSE [tag_type |-> "struct", size |-> 88]

\* Element counts asked for ("Tag{N}").
ReadElems == {1, 124, 126}

\* One entry of parsed_requests: a request that failed to parse has only
\* the error; fits is what add_read answers when the tag is offered to the
\* Multiple Service Packet being filled (False: no room, tag not added).
ReadItems ==
    [plc_tag : PlanTags, elements : ReadElems, error : {FALSE},
     fits : BOOLEAN]
    \cup [plc_tag : {"A"}, elements : {1}, error : {TRUE}, fits : {TRUE}]

ReadInputs == UNION {[1..n -> ReadItems] : n \in 1..MaxTags}

\* _tag_return_size
tag_return_size(info) == info.size

\* (plc_tag, elements): the key of a request and of its result.
mkkey(item) == <<item.plc_tag, item.elements>>

\* A new request packet of the given type holding the given tags.
new_request(type_, ts) == [type_ |-> type_, tags |-> ts]

\* current_request.add_read(...): True when the packet being filled took
\* the tag, False when it has no room for it.
add_read(item) == item.fits

\* The state of _read__build_requests before the first tag.
ReadPlanStart ==
    [requests |-> <<new_request("multi", <<>>)>>, cur |-> 1,
     response_size |-> 0, tags_in_requests |-> {}]

\* A fresh Multiple Service Packet holding the tag becomes the current one.
read_start_packet(st, item, return_size) ==
    [st EXCEPT !.requests = Append(@, new_request("multi", <<mkkey(item)>>)),
               !.cur = Len(st.requests) + 1,
               !.response_size = return_size]

\* Variant of the loop body of _read__build_requests that starts a new
\* packet only when the budget is already exceeded.
read_plan_step_late(st, item, cs) ==
    IF item.error \/ mkkey(item) \in st.tags_in_requests THEN st
    ELSE LET s1 == [st EXCEPT !.tags_in_requests = @ \cup {mkkey(item)}]
             return_size == tag_return_size(tag_info(item.plc_tag))
                            * item.elements
         IN  IF return_size > cs
             THEN [s1 EXCEPT !.requests = Append(@,
                       new_request("read_tag_fragmented", <<mkkey(item)>>))]
             ELSE IF s1.response_size < cs
             THEN IF add_read(item)
                  THEN [s1 EXCEPT
                          !.requests[s1.cur].tags = Append(@, mkkey(item)),
                          !.response_size = @ + return_size]
                  ELSE read_start_packet(s1, item, return_size)
             ELSE read_start_packet(s1, item, return_size)

\* Variant of the loop body of _read__build_requests that also puts an
\* oversize read in the current packet.
read_plan_step_keeps_oversize(st, item, cs) ==
    IF item.error \/ mkkey(item) \in st.tags_in_requests THEN st
    ELSE LET s1 == [st EXCEPT !.tags_in_requests = @ \cup {mkkey(item)}]
             return_size == tag_return_size(tag_info(item.plc_tag))
                            * item.elements
         IN  IF return_size > cs
             THEN [s1 EXCEPT
                     !.requests = Append(
                         [@ EXCEPT ![s1.cur].tags = Append(@, mkkey(item))],
                         new_request("read_tag_fragmented", <<mkkey(item)>>))]
             ELSE IF s1.response_size + return_size < cs
             THEN IF add_read(item)
                  THEN [s1 EXCEPT
                          !.requests[s1.cur].tags = Append(@, mkkey(item)),
                          !.response_size = @ + return_size]
                  ELSE read_start_packet(s1, item, return_size)
             ELSE read_start_packet(s1, item, return_size)

\* The loop body of _read__build_requests for one entry of parsed_tags.
read_plan_step(st, item, cs) ==
    IF item.error \/ mkkey(item) \in st.tags_in_requests THEN st
    ELSE LET s1 == [st EXCEPT !.tags_in_requests = @ \cup {mkkey(item)}]
             return_size == tag_return_size(tag_info(item.plc_tag))
                            * item.elements
         IN  IF return_size > cs
             THEN [s1 EXCEPT !.requests = Append(@,
                       new_request("read_tag_fragmented", <<mkkey(item)>>))]
             ELSE IF s1.response_size + return_size < cs
             THEN IF add_read(item)
                  THEN [s1 EXCEPT
                          !.requests[s1.cur].tags = Append(@, mkkey(item)),
                          !.response_size = @ + return_size]
                  ELSE read_start_packet(s1, item, return_size)
             ELSE read_start_packet(s1, item, return_size)

\* LogixDriver._read__build_requests
RECURSIVE read_build_requests(_, _, _)
read_build_requests(st, items, cs) ==
    IF items = <<>> THEN st.requests
    ELSE read_build_requests(read_plan_step(st, Head(items), cs),
                             Tail(items), cs)

\* The indexes of the requests that hold the key.
RequestsOf(reqs, key) ==
    {j \in 1..Len(reqs) : \E i \in 1..Len(reqs[j].tags) :
                              reqs[j].tags[i] = key}

\* LogixDriver._send_requests, as far as the keys go: the result stored
\* under a key comes from the reply of the last request that holds the key.
send_requests_source(reqs, key) ==
    LET js == RequestsOf(reqs, key)
    IN  IF js = {} THEN 0
        ELSE CHOOSE j \in js : \A i \in js : i <= j

\* Variant of the result loop of read() that gives every name the result
\* of the first request.
read_results_first_only(items, reqs) ==
    [i \in 1..Len(items) |->
        IF items[i].error THEN [error |-> "Invalid tag request", source |-> 0]
        ELSE [error |-> "none", source |-> 1]]

\* The result loop of LogixDriver.read: each requested name gets the result
\* stored under its (plc_tag, elements); a name that did not parse, or
\* whose key has no result, gets an "Invalid tag request" error.
read_results_of(items, reqs) ==
    [i \in 1..Len(items) |->
        IF items[i].error \/ send_requests_source(reqs, mkkey(items[i])) = 0
        THEN [error |-> "Invalid tag request", source |-> 0]
        ELSE [error |-> "none",
              source |-> send_requests_source(reqs, mkkey(items[i]))]]

\* Every variable of the driver stays as it is.
DriverFrame ==
    UNCHANGED <<symbols, tags, ret_tags, sock, connection_opened, session,
                target_is_connected, target_cid, sequence, pid, ndrivers,
                op, trace, io_failed, exc, ret, errs, hist, fo_live,
                registered, orphan, fo_false, reply, bad_reply, after_fail,
                pc, tmp, rv>>

\* read(): the requests are planned and every name gets its result.
ReadPlan ==
    /\ read_tags # <<>>
    /\ read_requests = <<>>
    /\ read_requests' = read_build_requests(ReadPlanStart, read_tags,
                                            connection_size)
    /\ read_results' = read_results_of(read_tags, read_requests')
    /\ UNCHANGED <<connection_size, read_tags, write_tags, write_requests,
                   sub_replies, multi_results, call, args, result>>
    /\ DriverFrame

InitRead ==
    /\ connection_size \in {500, 4000}
    /\ read_tags \in ReadInputs
    /\ read_requests = <<>>
    /\ read_results = <<>>
    /\ write_tags = <<>>
    /\ write_requests = <<>>
    /\ sub_replies = <<>>
    /\ multi_results = <<>>
    /\ NoCall
    /\ pid = 1
    /\ sequence = pid
    /\ symbols = {}
    /\ InitDriver

NextRead == ReadPlan

SpecRead == InitRead /\ [][NextRead]_vars

\* ------------------------------------------------------------- write planner
\* Bit positions of the 32-bit masks (0xFFFFFFFF / 0x00000000).  A mask is
\* written as the set of the positions that hold a 1.
MaskBits == 0..31

\* Integer tags written to, and the bits named in "Tag.n".
WriteTags == {"F", "G"}
WriteBits == {0, 3, 5}

\* One entry of parsed_requests of a write() call, with the value given for
\* it: bit is None for a write of the whole tag, typ is the kind of bit
\* ("bit" of an integer, "bool_array" for an index into a BOOL array); big says that the encoded
\* value is longer than connection_size.
WriteItems ==
    [plc_tag : WriteTags, typ : {"bit"}, bit : WriteBits, value : BOOLEAN,
     big : {FALSE}, error : {FALSE}]
    \cup [plc_tag : WriteTags, typ : {"bit"}, bit : {None}, value : {TRUE},
          big : BOOLEAN, error : {FALSE}]
    \cup [plc_tag : {"F"}, typ : {"bit"}, bit : {None}, value : {TRUE},
          big : {FALSE}, error : {TRUE}]

\* The name the caller gave: parsed_requests is a dict keyed by it.
WriteName(item) == <<item.plc_tag, item.bit, item.error>>

WriteInputs ==
    {ws \in UNION {[1..n -> WriteItems] : n \in 1..MaxTags} :
        \A i, j \in 1..Len(ws) :
            i # j => WriteName(ws[i]) # WriteName(ws[j])}

\* A sub-request of a write request: a Write Tag of the whole tag or a
\* Read-Modify-Write with its masks.
WriteSub(t) == [kind |-> "write", plc_tag |-> t,
                or_mask |-> {}, and_mask |-> {}]
RmwSub(b) == [kind |-> "rmw", plc_tag |-> b.plc_tag,
              or_mask |-> b.or_mask, and_mask |-> b.and_mask]

\* Index of the entry of bit_requests for the tag, 0 if there is none.
BitEntry(bit_requests, t) ==
    IF \E i \in 1..Len(bit_requests) : bit_requests[i].plc_tag = t
    THEN CHOOSE i \in 1..Len(bit_requests) : bit_requests[i].plc_tag = t
    ELSE 0

\* Variant of the bit position that leaves out the "% 32".
mask_bit_no_modulo(item) == item.bit

\* _bit_request: the position in the masks of the bit an entry names; the
\* index into a BOOL array is taken modulo the 32 bits of its DWORD.
mask_bit(item) ==
    IF item.typ = "bool_array" THEN item.bit % 32 ELSE item.bit

\* Variant of _bit_request that clears the whole and_mask for a bit written
\* false.
bit_request_clears_all(item, bit_requests) ==
    LET b0 == IF BitEntry(bit_requests, item.plc_tag) = 0
              THEN Append(bit_requests,
                          [plc_tag |-> item.plc_tag, and_mask |-> MaskBits,
                           or_mask |-> {}, bits |-> <<>>])
              ELSE bit_requests
        n  == BitEntry(b0, item.plc_tag)
    IN  IF item.value
        THEN [b0 EXCEPT ![n].bits = Append(@, item.bit),
                        ![n].or_mask = @ \cup {mask_bit(item)}]
        ELSE [b0 EXCEPT ![n].bits = Append(@, item.bit),
                        ![n].and_mask = {}]

\* _bit_request for an entry that names a bit: the entry of the tag in
\* bit_requests is created when missing and the bit is put in its masks.
bit_request(item, bit_requests) ==
    LET b0 == IF BitEntry(bit_requests, item.plc_tag) = 0
              THEN Append(bit_requests,
                          [plc_tag |-> item.plc_tag, and_mask |-> MaskBits,
                           or_mask |-> {}, bits |-> <<>>])
              ELSE bit_requests
        n  == BitEntry(b0, item.plc_tag)
    IN  IF item.value
        THEN [b0 EXCEPT ![n].bits = Append(@, item.bit),
                        ![n].or_mask = @ \cup {mask_bit(item)}]
        ELSE [b0 EXCEPT ![n].bits = Append(@, item.bit),
                        ![n].and_mask = @ \ {mask_bit(item)}]

\* current_request.add_write(...): True when the packet being filled took
\* the write.  The writes planned here are small: there is always room.
add_write(req) == TRUE

\* The state of _write__build_requests before the first tag.
WritePlanStart ==
    [requests |-> <<[type_ |-> "multi", subs |-> <<>>]>>, cur |-> 1,
     bit_writes |-> <<>>, tags_in_requests |-> {}]

\* The sub-request is added to the current packet, or to a fresh one when
\* the current one has no room.
write_add(st, sub) ==
    IF add_write(st.requests[st.cur])
    THEN [st EXCEPT !.requests[st.cur].subs = Append(@, sub)]
    ELSE [st EXCEPT !.requests = Append(@, [type_ |-> "multi",
                                            subs |-> <<sub>>]),
                    !.cur = Len(st.requests) + 1]

\* The loop body of _write__build_requests for one entry of parsed_tags.
write_plan_step(st, item) ==
    IF item.error \/ <<item.plc_tag, 1>> \in st.tags_in_requests THEN st
    ELSE LET s1 == [st EXCEPT
                      !.tags_in_requests = @ \cup {<<item.plc_tag, 1>>}]
         IN  IF item.bit # None
             THEN [s1 EXCEPT !.bit_writes = bit_request(item, @)]
             ELSE IF item.big
             THEN [s1 EXCEPT !.requests = Append(@,
                       [type_ |-> "write_tag_fragmented",
                        subs |-> <<WriteSub(item.plc_tag)>>])]
             ELSE write_add(s1, WriteSub(item.plc_tag))

\* The second loop of _write__build_requests: one Read-Modify-Write for
\* every entry of bit_writes.
RECURSIVE write_add_bits(_, _)
write_add_bits(st, bs) ==
    IF bs = <<>> THEN st
    ELSE write_add_bits(write_add(st, RmwSub(Head(bs))), Tail(bs))

\* LogixDriver._write__build_requests
RECURSIVE write_build_requests(_, _)
write_build_requests(st, items) ==
    IF items = <<>> THEN write_add_bits(st, st.bit_writes).requests
    ELSE write_build_requests(write_plan_step(st, Head(items)), Tail(items))

\* write(): the requests are planned.
WritePlan ==
    /\ write_tags # <<>>
    /\ write_requests = <<>>
    /\ write_requests' = write_build_requests(WritePlanStart, write_tags)
    /\ UNCHANGED <<connection_size, read_tags, read_requests, read_results,
                   write_tags, sub_replies, multi_results, call, args, result>>
    /\ DriverFrame

InitWrite ==
    /\ connection_size = 4000
    /\ read_tags = <<>>
    /\ read_requests = <<>>
    /\ read_results = <<>>
    /\ write_tags \in WriteInputs
    /\ write_requests = <<>>
    /\ sub_replies = <<>>
    /\ multi_results = <<>>
    /\ NoCall
    /\ pid = 1
    /\ sequence = pid
    /\ symbols = {}
    /\ InitDriver

NextWrite == WritePlan

SpecWrite == InitWrite /\ [][NextWrite]_vars

\* ------------------------------------------------- response demultiplexer
\* response.tags of the reply to a Multiple Service Packet: one entry per
\* sub-reply, with the tag of the sub-request, the service status of the
\* sub-reply and the value it carries.
ReplyTags == {"A", "B", "C", "D"}
ServiceStatus == {0, 4, 6}      \* success, path error, insufficient packets
ReplyValues == {10, 11}

SubReplies == [tag : ReplyTags, service_status : ServiceStatus,
               value : ReplyValues]

ReplyInputs ==
    {rs \in UNION {[1..n -> SubReplies] : n \in 1..MaxTags} :
        \A i, j \in 1..Len(rs) : i # j => rs[i].tag # rs[j].tag}

\* Variant of the multi branch of _send_requests that gives every tag of
\* the packet an error as soon as one sub-reply has an error status.
send_requests_multi_fails_batch(rs) ==
    LET bad == {i \in 1..Len(rs) : rs[i].service_status # 0}
    IN  [t \in {rs[i].tag : i \in 1..Len(rs)} |->
            LET i == CHOOSE n \in 1..Len(rs) : rs[n].tag = t
            IN  IF bad = {}
                THEN [tag |-> t, value |-> rs[i].value, error |-> None]
                ELSE [tag |-> t, value |-> None,
                      error |-> rs[CHOOSE n \in bad : TRUE].service_status]]

\* LogixDriver._send_requests, the branch for the reply to a Multiple
\* Service Packet: one Tag per entry of response.tags, stored under the
\* key of the entry.
send_requests_multi(rs) ==
    [t \in {rs[i].tag : i \in 1..Len(rs)} |->
        LET i == CHOOSE n \in 1..Len(rs) : rs[n].tag = t
        IN  IF rs[i].service_status = 0
            THEN [tag |-> t, value |-> rs[i].value, error |-> None]
            ELSE [tag |-> t, value |-> None,
                  error |-> rs[i].service_status]]

\* _send_requests receives the reply to a Multiple Service Packet.
SendRequestsMulti ==
    /\ sub_replies # <<>>
    /\ multi_results = <<>>
    /\ multi_results' = send_requests_multi(sub_replies)
    /\ UNCHANGED <<connection_size, read_tags, read_requests, read_results,
                   write_tags, write_requests, sub_replies, call, args, result>>
    /\ DriverFrame

InitDemux ==
    /\ connection_size = 4000
    /\ read_tags = <<>>
    /\ read_requests = <<>>
    /\ read_results = <<>>
    /\ write_tags = <<>>
    /\ write_requests = <<>>
    /\ sub_replies \in ReplyInputs
    /\ multi_results = <<>>
    /\ NoCall
    /\ pid = 1
    /\ sequence = pid
    /\ symbols = {}
    /\ InitDriver

NextDemux == SendRequestsMulti

SpecDemux == InitDemux /\ [][NextDemux]_vars

\* -------------------------------------------------- internal functions
\* The functions below are studied on their own: Init draws the arguments
\* (and what the controller answers) into args, one action applies the
\* function and stores what it did in result.
InitCall(S) ==
    /\ connection_size = 4000
    /\ read_tags = <<>>
    /\ read_requests = <<>>
    /\ read_results = <<>>
    /\ write_tags = <<>>
    /\ write_requests = <<>>
    /\ sub_replies = <<>>
    /\ multi_results = <<>>
    /\ call = "none"
    /\ args \in S
    /\ result = <<>>
    /\ pid = 1
    /\ sequence = pid
    /\ symbols = {}
    /\ InitDriver

Apply(name, r) ==
    /\ call = "none"
    /\ call' = name
    /\ result' = r
    /\ UNCHANGED <<connection_size, read_tags, read_requests, read_results,
                   write_tags, write_requests, sub_replies, multi_results,
                   args>>
    /\ DriverFrame

\* The replies to the requests of one fragmented transfer: the status of
\* every reply but the last is "more packets" (the loops stop at the first
\* reply with another status).  Reply i carries lens[i] data bytes, each
\* of them the byte i, so that the data of different replies differs.
FragReplies ==
    UNION {{[i \in 1..n |-> [status |-> IF i < n THEN MorePackets ELSE last,
                             data |-> [k \in 1..lens[i] |-> i]]] :
               lens \in [1..n -> 0..MaxChunk], last \in {0, OtherStatus}} :
           n \in 1..MaxFrag}

\* Number of data bytes in the first n replies.
RECURSIVE Received(_, _)
Received(rs, n) ==
    IF n = 0 THEN 0 ELSE Received(rs, n - 1) + Len(rs[n].data)

\* ------------------------------------------------------------ template read
\* object_definition_size values of the Template Object (32-bit words).
DefinitionSizes == {6, 7}

template_size(ods) == (ods * 4) - 21

\* The controller never returns more template bytes than were requested.
TemplateInputs ==
    {a \in [object_definition_size : DefinitionSizes, replies : FragReplies] :
        \A n \in 1..Len(a.replies) :
            Received(a.replies, n) <= template_size(a.object_definition_size)}

\* Variant of _read_template that advances the offset by the number of
\* bytes requested instead of the number of bytes received.
RECURSIVE read_template_advances_by_request(_, _, _)
read_template_advances_by_request(a, i, st) ==
    LET size == template_size(a.object_definition_size) - st.offset
        rsp  == a.replies[i]
        sent == [st EXCEPT !.requests =
                               Append(@, [offset |-> st.offset,
                                          size |-> size])]
    IN  IF pack_uint_fails(size)
        THEN [st EXCEPT !.exc = "struct.error"]
        ELSE IF rsp.status \notin {0, MorePackets}
        THEN [sent EXCEPT !.exc = "DataError"]
        ELSE LET got == [sent EXCEPT !.template_raw = @ \o rsp.data]
             IN  IF rsp.status = 0
                 THEN [got EXCEPT !.ret = got.template_raw]
                 ELSE read_template_advances_by_request(a, i + 1,
                          [got EXCEPT !.offset = @ + size])

\* LogixDriver._read_template: a is the object definition size and the
\* replies of the controller, i the number of the next request, st the
\* loop's variables and the requests issued so far.
RECURSIVE read_template(_, _, _)
read_template(a, i, st) ==
    LET size == template_size(a.object_definition_size) - st.offset
        rsp  == a.replies[i]
        sent == [st EXCEPT !.requests =
                               Append(@, [offset |-> st.offset,
                                          size |-> size])]
    IN  IF pack_uint_fails(size)
        THEN [st EXCEPT !.exc = "struct.error"]
        ELSE IF rsp.status \notin {0, MorePackets}
        THEN [sent EXCEPT !.exc = "DataError"]
        ELSE LET got == [sent EXCEPT !.template_raw = @ \o rsp.data]
             IN  IF rsp.status = 0
                 THEN [got EXCEPT !.ret = got.template_raw]
                 ELSE read_template(a, i + 1,
                          [got EXCEPT !.offset = @ + Len(rsp.data)])

TemplateStart == [offset |-> 0, template_raw |-> <<>>, requests |-> <<>>,
                  exc |-> "none", ret |-> <<>>]

ReadTemplate == Apply("_read_template", read_template(args, 1, TemplateStart))

InitTemplate == InitCall(TemplateInputs)

NextTemplate == ReadTemplate

SpecTemplate == InitTemplate /\ [][NextTemplate]_vars


\* ------------------------------------------------------ structure types
TemplateIds == 1..MaxTemplates

\* The struct-typed members of one template, in declaration order: the
\* instance ids _parse_template_data_member_info hands to _get_data_type.
\* (Atomic members make no call.)
MemberLists ==
    {ms \in UNION {[1..n -> TemplateIds] : n \in 0..MaxTemplates} :
        \A i, j \in 1..Len(ms) : i # j => ms[i] # ms[j]}

\* A finite set of templates and the instance id to resolve.  The
\* controller answers every request (Get Attributes, Read Template).
TypeInputs == [templates : [TemplateIds -> MemberLists],
               instance_id : TemplateIds]

\* The interpreter's limit on nested calls, counted in nested calls of
\* _get_data_type and scaled to the model: one more than the deepest
\* nesting a set of MaxTemplates templates needs without re-entry.
RecursionLimit == MaxTemplates + 1

TypeStart == [udt |-> {}, resolving |-> <<>>, reads |-> 0,
              reentered |-> FALSE, recursion_error |-> FALSE,
              exc |-> "none"]

\* LogixDriver._get_data_type with the member loop of _parse_template_data
\* (parse_members): st.udt is the key set of self._cache['id:udt'],
\* st.resolving the instance ids of the calls that are on the stack.  The
\* entry is stored after the members have been parsed; an exception inside
\* the try block is logged and the final lookup then raises KeyError.
RECURSIVE get_data_type(_, _, _)
RECURSIVE parse_members(_, _, _)
parse_members(T, ms, st) ==
    IF ms = <<>> THEN st
    ELSE LET r == get_data_type(T, Head(ms), st)
         IN  IF r.exc # "none" THEN r
             ELSE parse_members(T, Tail(ms), r)

get_data_type(T, instance_id, st) ==
    IF instance_id \in st.udt THEN st
    ELSE IF Len(st.resolving) >= RecursionLimit
    THEN [st EXCEPT !.recursion_error = TRUE, !.exc = "KeyError"]
    ELSE LET inside == [st EXCEPT
                          !.reentered = @ \/ (\E i \in 1..Len(st.resolving) :
                                                st.resolving[i] = instance_id),
                          !.resolving = Append(@, instance_id),
                          !.reads = @ + 1]
             r == parse_members(T, T[instance_id], inside)
             back == [r EXCEPT !.resolving = st.resolving]
         IN  IF r.exc # "none"
             THEN [back EXCEPT !.exc = "KeyError"]
             ELSE [back EXCEPT !.udt = @ \cup {instance_id}]

GetDataType ==
    Apply("_get_data_type",
          get_data_type(args.templates, args.instance_id, TypeStart))

InitTypes == InitCall(TypeInputs)

NextTypes == GetDataType

SpecTypes == InitTypes /\ [][NextTypes]_vars


\* ------------------------------------------------- fragmented read (legacy)
\* read_array(tag, counts, raw) on a connected driver: the replies of the
\* controller to the Read Tag Fragmented requests.  The elements are of a
\* one-byte type (SINT), so every data byte is one value.
ArrayInputs == [raw : BOOLEAN, replies : FragReplies]

\* LogixDriver._check_reply for the reply to a Read Tag Fragmented request:
\* None (no error) for status 0x00 and 0x06.
check_reply(status) == status = 0 \/ status = MorePackets

\* The effect of "tags += value" / "tags.append((last_idx, value))" for all
\* values of one fragment on the object the caller passed: a list is
\* extended in place; bytes are immutable, so the += rebinds the local name
\* of _parse_fragment and the caller's object stays what it was.
RECURSIVE fragment_values(_, _, _, _)
fragment_values(tags_obj, data, last_idx, raw) ==
    IF data = <<>> \/ raw THEN tags_obj
    ELSE fragment_values(Append(tags_obj, <<last_idx, Head(data)>>),
                         Tail(data), last_idx + 1, raw)

\* LogixDriver._parse_fragment: the caller's tags object afterwards, the
\* new last_idx and the new offset.
parse_fragment(rsp, last_idx, offset, tags_obj, raw) ==
    [tags     |-> fragment_values(tags_obj, rsp.data, last_idx, raw),
     last_idx |-> IF raw THEN last_idx ELSE last_idx + Len(rsp.data),
     offset   |-> IF rsp.status = 0 THEN -1
                  ELSE IF rsp.status = MorePackets
                  THEN offset + Len(rsp.data)
                  ELSE -1]

\* LogixDriver.read_array, the loop: i is the number of the next request.
RECURSIVE read_array(_, _, _)
read_array(a, i, st) ==
    IF st.offset = -1 THEN [st EXCEPT !.ret = st.tags]
    ELSE LET rsp  == a.replies[i]
             sent == [st EXCEPT !.offsets = Append(@, st.offset)]
             p    == parse_fragment(rsp, st.last_idx, st.offset, st.tags,
                                    a.raw)
         IN  IF ~check_reply(rsp.status)
             THEN [sent EXCEPT !.exc = "DataError"]
             ELSE read_array(a, i + 1,
                      [sent EXCEPT !.tags = p.tags,
                                   !.last_idx = p.last_idx,
                                   !.offset = p.offset])

ArrayStart == [offset |-> 0, last_idx |-> 0, tags |-> <<>>,
               offsets |-> <<>>, exc |-> "none", ret |-> <<>>]

ReadArray == Apply("read_array", read_array(args, 1, ArrayStart))

InitArray == InitCall(ArrayInputs)

NextArray == ReadArray

SpecArray == InitArray /\ [][NextArray]_vars


\* ------------------------------------------------------ bits of a tag
\* read('T.n') / write(('T.n', v)) for an integer tag T, and
\* read('Array[i]') / write(('Array[i]', v)) for a BOOL array, which the
\* controller stores as DWORD elements of 32 bits.
IntTypes == {"SINT", "USINT", "INT", "UINT", "DWORD"}

type_width(t) ==
    CASE t \in {"SINT", "USINT"} -> 8
      [] t \in {"INT", "UINT"}   -> 16
      [] OTHER                   -> 32

type_signed(t) == t \in {"SINT", "INT"}

\* Contents of one element in the controller: the positions of its 1 bits.
BitPatterns(w) == {{}, {0}, {5}, {w - 1}, 0..(w - 1)}

\* What is asked and what the controller holds.  index and digits are None
\* when the name has no "[i]" and no ".n"; memory lists the elements of the
\* tag; value is the value to write.
BitInputs ==
    UNION {[name : {"T"}, index : {None}, digits : 0..(type_width(t) - 1),
            elements : {1}, data_type : {t},
            memory : [1..1 -> BitPatterns(type_width(t))],
            value : BOOLEAN] : t \in IntTypes}
    \cup [name : {"Array"}, index : 0..63, digits : {None},
          elements : {1}, data_type : {"DWORD"},
          memory : [1..2 -> BitPatterns(32)], value : BOOLEAN]

\* _get_array_index
get_array_index(index) == IF index = None THEN 0 ELSE index

\* LogixDriver._parse_tag_request: the tag to request, the bit and the
\* number of elements.
parse_tag_request(req) ==
    LET bit == IF req.digits # None THEN <<"bit", req.digits>> ELSE None
        idx == get_array_index(req.index)
    IN  IF req.data_type = "DWORD" /\ req.elements = 1
        THEN [plc_tag  |-> [name |-> req.name, index |-> idx \div 32],
              bit      |-> <<"bool_array", idx>>,
              elements |-> 1]
        ELSE [plc_tag  |-> [name |-> req.name, index |-> req.index],
              bit      |-> bit,
              elements |-> req.elements]

\* The element of the tag that a request for plc_tag reads.
controller_read(memory, plc_tag) ==
    memory[get_array_index(plc_tag.index) + 1]

RECURSIVE SumPowers(_)
SumPowers(B) ==
    IF B = {} THEN 0
    ELSE LET b == CHOOSE x \in B : TRUE
         IN  2 ^ b + SumPowers(B \ {b})

\* The value of a read result: an integer for the integer types (two's
\* complement for the signed ones), a list of 32 booleans, bit 0 first,
\* for a DWORD.
tag_value(t, B) ==
    IF t = "DWORD" THEN [k \in 0..31 |-> k \in B]
    ELSE IF type_signed(t) /\ (type_width(t) - 1) \in B
    THEN SumPowers(B) - 2 ^ type_width(t)
    ELSE SumPowers(B)

\* LogixDriver.read, the value given for a request that names a bit:
\* bool(result.value & (1 << bit)) or result.value[bit % 32].
read_bit(value, bit) ==
    IF bit[1] = "bit" THEN (value \div (2 ^ bit[2])) % 2 = 1
    ELSE value[bit[2] % 32]

\* read() and the masks write() builds for one request.
read_write_bit(req) ==
    LET p == parse_tag_request(req)
        v == tag_value(req.data_type, controller_read(req.memory, p.plc_tag))
    IN  [plc_tag |-> p.plc_tag,
         bit     |-> p.bit,
         val     |-> read_bit(v, p.bit),
         bit_writes |->
             bit_request([plc_tag |-> p.plc_tag, typ |-> p.bit[1],
                          bit |-> p.bit[2], value |-> req.value], <<>>)]

ReadWriteBit == Apply("read", read_write_bit(args))

InitBit == InitCall(BitInputs)

NextBit == ReadWriteBit

SpecBit == InitBit /\ [][NextBit]_vars


\* ------------------------------------------------- base of a request path
\* LogixDriver(init_info, init_tags) is constructed against a controller
\* of firmware version_major that holds the tags ControllerTags; the caller
\* may call get_tag_list() afterwards; then create_tag_rp(base) builds the
\* request path of a tag.
ControllerTags == {"Tag1"}
MajorVersions == {19, 20, 21, 22, 32}

PathInputs == [init_info : BOOLEAN, init_tags : BOOLEAN,
               get_tag_list : BOOLEAN, version_major : MajorVersions,
               base : {"Tag1", "Zed"}]

\* LogixDriver.__init__: the value of self.use_instance_ids afterwards.
init_use_instance_ids(a) ==
    IF a.init_info THEN a.version_major >= MinVerInstanceIds ELSE TRUE

\* The keys of self._tags: filled by get_tag_list, in __init__ when
\* init_tags is set or in a later call.
cached_tags(a) ==
    IF a.init_tags \/ a.get_tag_list THEN ControllerTags ELSE {}

\* LogixDriver.create_tag_rp: the kind of the base segment.
create_tag_rp(use_instance_ids, tag_names, base) ==
    IF use_instance_ids /\ base \in tag_names THEN "instance"
    ELSE "symbolic"

CreateTagRp ==
    Apply("create_tag_rp",
          [use_instance_ids |-> init_use_instance_ids(args),
           tag_names |-> cached_tags(args),
           base_segment |-> create_tag_rp(init_use_instance_ids(args),
                                          cached_tags(args), args.base)])

InitPath == InitCall(PathInputs)

NextPath == CreateTagRp

SpecPath == InitPath /\ [][NextPath]_vars


\* --------------------------------------------------- element-id segments
\* An array index is an unbounded Python int.  It is written here as the
\* pair of its upper part and its lower 16 bits, value = hi * 65536 + lo
\* with lo in 0..65535 (hi is negative for a negative index).
Wide(hi, lo) == [hi |-> hi, lo |-> lo]

LessEq(a, b) == a.hi < b.hi \/ (a.hi = b.hi /\ a.lo <= b.lo)

IndexValues ==
    [hi : {-1, 0, 1, 32767, 32768, 65535, 65536, 1048575, 1048576},
     lo : {0, 1, 255, 256, 65535}]

IndexInputs == UNION {[1..n -> IndexValues] : n \in 1..MaxDims}

\* pack_usint, pack_uint, pack_dint: little-endian fields of 8 bits, 16
\* bits and 32 bits (signed); a value that does not fit raises struct.error.
pack_usint_fails(v) == ~(LessEq(Wide(0, 0), v) /\ LessEq(v, Wide(0, 255)))
pack_dint_fails(v) == ~(LessEq(Wide(-32768, 0), v)
                        /\ LessEq(v, Wide(32767, 65535)))
pack_usint(v) == <<v.lo>>
pack_uint(v) == <<v.lo % 256, v.lo \div 256>>
pack_dint(v) == <<v.lo % 256, v.lo \div 256,
                  v.hi % 256, (v.hi \div 256) % 256>>

\* LogixDriver._encode_tag_index (the same steps are in
\* Base.create_tag_rp): the segments of the indices seen so far are in
\* path; the result is the path, None, or the exception raised.
RECURSIVE encode_tag_index(_, _)
encode_tag_index(index, path) ==
    IF index = <<>> THEN [path |-> path, exc |-> "none"]
    ELSE LET val == Head(index)
         IN  IF LessEq(val, Wide(0, 255))                 \* 0xff
             THEN IF pack_usint_fails(val)
                  THEN [path |-> None, exc |-> "struct.error"]
                  ELSE encode_tag_index(Tail(index),
                           path \o <<40>> \o pack_usint(val))
             ELSE IF LessEq(val, Wide(0, 65535))          \* 0xffff
             THEN encode_tag_index(Tail(index),
                      path \o <<41, 0>> \o pack_uint(val))
             ELSE IF LessEq(val, Wide(1048575, 65535))    \* 0xfffffffff
             THEN IF pack_dint_fails(val)
                  THEN [path |-> None, exc |-> "struct.error"]
                  ELSE encode_tag_index(Tail(index),
                           path \o <<42, 0>> \o pack_dint(val))
             ELSE [path |-> None, exc |-> "none"]

EncodeTagIndex == Apply("_encode_tag_index", encode_tag_index(args, <<>>))

InitIndex == InitCall(IndexInputs)

NextIndex == EncodeTagIndex

SpecIndex == InitIndex /\ [][NextIndex]_vars


\* ------------------------------------------------------- tag names of a scan
\* A name is the sequence of its pieces; "Program:", ":" and "__" are the
\* pieces the code looks for.
Has(name, piece) == \E i \in 1..Len(name) : name[i] = piece

\* 'Program:' in name, ':' in name, '__' in name
in_program(name) == Has(name, "Program:")
in_colon(name) == Has(name, ":") \/ Has(name, "Program:")
in_dunder(name) == Has(name, "__")

\* Names of controller-scoped symbols: a user tag, a program, a module
\* tag, a hidden tag.
ScopeNames == {<<"Tag1">>, <<"Program:", "Main">>, <<"Local", ":", "I">>,
               <<"__", "DEFVAL">>}

\* Bits of the symbol type that the filter looks at: bit 12 (system tag).
SymbolTypes == {{}, {12}}

\* The records of the controller scope in scan order; the instance id of a
\* record is its position.
ControllerScans ==
    {rs \in UNION {[1..n -> [tag_name : ScopeNames,
                             symbol_type : SymbolTypes]] : n \in 1..MaxTags} :
        \A i, j \in 1..Len(rs) : i # j => rs[i].tag_name # rs[j].tag_name}

\* The records of the scope of program Main, with their instance ids.
ProgramScans ==
    {<<>>,
     <<[instance_id |-> 101, tag_name |-> <<"a">>, symbol_type |-> {}]>>,
     <<[instance_id |-> 101, tag_name |-> <<"a">>, symbol_type |-> {}],
       [instance_id |-> 102, tag_name |-> <<"b">>, symbol_type |-> {12}]>>}

\* The program argument of get_tag_list: None, '*', 'Main', 'Program:Main'.
ProgramArgs == {<<>>, <<"*">>, <<"Main">>, <<"Program:", "Main">>}

NameInputs == [program : ProgramArgs, controller : ControllerScans,
               main : ProgramScans]

\* Variant of _isolating_user_tag that tests ':' and '__' before
\* 'Program:'.
RECURSIVE isolating_user_tag_filters_first(_, _, _)
isolating_user_tag_filters_first(all_tags, program, st) ==
    IF all_tags = <<>> THEN st
    ELSE LET tag  == Head(all_tags)
             name == tag.tag_name
             rest == Tail(all_tags)
         IN  IF in_colon(name) \/ in_dunder(name)
             THEN isolating_user_tag_filters_first(rest, program, st)
             ELSE IF in_program(name)
             THEN isolating_user_tag_filters_first(rest, program,
                      [st EXCEPT !.program_names = Append(@, name)])
             ELSE IF 12 \in tag.symbol_type
             THEN isolating_user_tag_filters_first(rest, program, st)
             ELSE isolating_user_tag_filters_first(rest, program,
                      [st EXCEPT !.user_tags =
                          Append(@, [tag_name |->
                                         IF program # <<>>
                                         THEN program \o <<".">> \o name
                                         ELSE name,
                                     instance_id |-> tag.instance_id])])

\* LogixDriver._isolating_user_tag: st holds user_tags and
\* self._program_names; program is <<>> for None.
RECURSIVE isolating_user_tag(_, _, _)
isolating_user_tag(all_tags, program, st) ==
    IF all_tags = <<>> THEN st
    ELSE LET tag  == Head(all_tags)
             name == tag.tag_name
             rest == Tail(all_tags)
         IN  IF in_program(name)
             THEN isolating_user_tag(rest, program,
                      [st EXCEPT !.program_names = Append(@, name)])
             ELSE IF in_colon(name) \/ in_dunder(name)
             THEN isolating_user_tag(rest, program, st)
             ELSE IF 12 \in tag.symbol_type
             THEN isolating_user_tag(rest, program, st)
             ELSE isolating_user_tag(rest, program,
                      [st EXCEPT !.user_tags =
                          Append(@, [tag_name |->
                                         IF program # <<>>
                                         THEN program \o <<".">> \o name
                                         ELSE name,
                                     instance_id |-> tag.instance_id])])

\* What _get_instance_attribute_list_service(program) collects: the scope
\* is addressed by the name with 'Program:' put in front when missing.
scope_records(a, program) ==
    LET path == IF program = <<>> THEN <<>>
                ELSE IF Head(program) # "Program:"
                THEN <<"Program:">> \o program
                ELSE program
    IN  IF path = <<>>
        THEN [i \in 1..Len(a.controller) |->
                 [instance_id |-> i,
                  tag_name |-> a.controller[i].tag_name,
                  symbol_type |-> a.controller[i].symbol_type]]
        ELSE a.main

\* LogixDriver._get_tag_list(program): st holds the tags returned so far,
\* self._program_names and the scans made.
scan_tag_list(a, program, st) ==
    LET all_tags == scope_records(a, program)
        r == isolating_user_tag(all_tags, program,
                 [user_tags |-> <<>>, program_names |-> st.program_names])
    IN  [tags |-> st.tags \o r.user_tags,
         program_names |-> r.program_names,
         scans |-> Append(st.scans, [all_tags |-> all_tags,
                                     user_tags |-> r.user_tags])]

RECURSIVE scan_programs(_, _, _)
scan_programs(a, n, st) ==
    IF n > Len(st.program_names) THEN st
    ELSE scan_programs(a, n + 1, scan_tag_list(a, st.program_names[n], st))

\* LogixDriver.get_tag_list(program), the names: '*' scans the controller
\* scope and then every program of self._program_names.
tag_list_names(a) ==
    LET st0 == [tags |-> <<>>, program_names |-> <<>>, scans |-> <<>>]
    IN  IF a.program = <<"*">>
        THEN scan_programs(a, 1, scan_tag_list(a, <<>>, st0))
        ELSE scan_tag_list(a, a.program, st0)

\* get_tag_list(program) on a driver whose self._program_names holds
\* program_names when the call starts.
tag_list_from(a, program, program_names) ==
    LET st0 == [tags |-> <<>>, program_names |-> program_names,
                scans |-> <<>>]
    IN  IF program = <<"*">>
        THEN scan_programs(a, 1, scan_tag_list(a, <<>>, st0))
        ELSE scan_tag_list(a, program, st0)

\* self._program_names after the calls get_tag_list(p) for the p of
\* programs, made one after the other on a new driver.
RECURSIVE program_names_after(_, _, _)
program_names_after(a, programs, program_names) ==
    IF programs = <<>> THEN program_names
    ELSE program_names_after(a, Tail(programs),
             tag_list_from(a, Head(programs), program_names).program_names)

\* get_tag_list('*') after the calls of a.earlier.
tag_list_again(a) ==
    tag_list_from(a, <<"*">>, program_names_after(a, a.earlier, <<>>))

\* The earlier calls: get_tag_list() or get_tag_list('*'), as made by
\* __init__ with init_tags or by the user.
AgainInputs ==
    [earlier : UNION {[1..n -> {<<>>, <<"*">>}] : n \in 0..MaxCalls},
     controller : ControllerScans, main : ProgramScans]

TagListAgain == Apply("get_tag_list('*')", tag_list_again(args))

InitAgain == InitCall(AgainInputs)

NextAgain == TagListAgain

SpecAgain == InitAgain /\ [][NextAgain]_vars

TagListNames == Apply("get_tag_list", tag_list_names(args))

InitNames == InitCall(NameInputs)

NextNames == TagListNames

SpecNames == InitNames /\ [][NextNames]_vars


\* ------------------------------------------------ Forward Open message
\* The options and fields of the driver that the Forward Open message is
\* built from: attribs['rpi'] (milliseconds), attribs['extended forward
\* open'], the direct_connection argument and connection_size.
RpiValues == {1, 2, 5, 10, 50, 100, 500, 1000, 2000, 2113, 2114, 5000, 10000}

ForwardOpenInputs ==
    [rpi : RpiValues, extended : BOOLEAN, direct_connection : BOOLEAN,
     connection_size : {500, 4000}]

\* A non-negative number below 2^31 as a wide value.
ToWide(v) == Wide(v \div 65536, v % 65536)

\* (True << 9) | (0 << 10) | (2 << 13) | (False << 15)
init_net_params == 512 + 16384

\* The forward_open_msg list of Base.forward_open: the service, the two
\* requested-packet-interval fields with the network parameters that
\* follow each of them, and the connection parameters.  The operands of
\* each "|" have no bit in common, so it is written as a sum.
forward_open_msg(a) ==
    LET net_params ==
            IF a.extended
            THEN pack_dint(Wide(init_net_params, a.connection_size % 65536))
            ELSE pack_uint(ToWide((a.connection_size % 512)
                                  + init_net_params))
    IN  [service |-> IF a.extended THEN "LARGE_FORWARD_OPEN"
                     ELSE "FORWARD_OPEN",
         ot_rpi |-> <<1, 64, 32, 0>>,            \* b'\x01\x40\x20\x00'
         ot_params |-> net_params,
         to_rpi |-> <<1, 64, 32, 0>>,            \* b'\x01\x40\x20\x00'
         to_params |-> net_params,
         connection_params |-> IF a.direct_connection
                               THEN "Direct Network" ELSE "Backplane"]

\* The forward_open_msg list of the legacy Driver.forward_open, which
\* knows neither the extended Forward Open nor direct connections; its
\* network parameters are the constant CONNECTION_PARAMETER['Default'].
legacy_forward_open_msg(a) ==
    [service |-> "FORWARD_OPEN",
     ot_rpi |-> pack_dint(ToWide(a.rpi * 1000)),
     ot_params |-> "Default",
     to_rpi |-> pack_dint(ToWide(a.rpi * 1000)),
     to_params |-> "Default",
     connection_params |-> "Backplane"]

ForwardOpenMsg == Apply("forward_open", forward_open_msg(args))

LegacyForwardOpenMsg ==
    Apply("legacy.forward_open", legacy_forward_open_msg(args))

InitMsg == InitCall(ForwardOpenInputs)

NextMsg == ForwardOpenMsg \/ LegacyForwardOpenMsg

SpecMsg == InitMsg /\ [][NextMsg]_vars


\* ------------------------------------------- Multiple Service Packet
\* The rp_list given to build_multiple_service: sub-request i is lens[i]
\* bytes long (a sub-request holds at least its service code) and made of
\* the byte i, so that the sub-requests differ.  sequence is None or the
\* sequence number of the connected message.
RpLists ==
    UNION {{[i \in 1..n |-> [k \in 1..lens[i] |-> i]] :
               lens \in [1..n -> 1..MaxRpLen]} : n \in 0..MaxSubs}

ServiceInputs == [rp_list : RpLists, sequence : {None, 1}]

\* The offsets appended by the loop of build_multiple_service for the
\* sub-requests rps, the first of them at offset.
RECURSIVE service_offsets(_, _)
service_offsets(rps, offset) ==
    IF rps = <<>> THEN <<>>
    ELSE <<offset>> \o service_offsets(Tail(rps), offset + Len(Head(rps)))

\* Variant of build_multiple_service whose first offset leaves out the two
\* bytes of the count.
build_multiple_service_no_count(rp_list, sequence_) ==
    LET offsets == service_offsets(rp_list, Len(rp_list) * 2)
    IN  IF \E i \in 1..Len(offsets) : pack_uint_fails(offsets[i])
        THEN [exc |-> "struct.error", prefix |-> <<>>, mr |-> <<>>]
        ELSE [exc |-> "none",
              prefix |-> (IF sequence_ # None THEN <<"sequence">> ELSE <<>>)
                         \o <<"service", "path_size", "class_type", "class",
                              "instance_type", "instance">>,
              mr |-> <<pack_uint(ToWide(Len(rp_list)))>>
                     \o [i \in 1..Len(offsets) |->
                            pack_uint(ToWide(offsets[i]))]
                     \o rp_list]

\* Base.build_multiple_service: prefix names the fields in front of the
\* service list (the sequence number if one is given, the service and the
\* request path), mr holds the fields of the service list: the count, the
\* offsets, the sub-requests.
build_multiple_service(rp_list, sequence_) ==
    LET offsets == service_offsets(rp_list, (Len(rp_list) * 2) + 2)
    IN  IF \E i \in 1..Len(offsets) : pack_uint_fails(offsets[i])
        THEN [exc |-> "struct.error", prefix |-> <<>>, mr |-> <<>>]
        ELSE [exc |-> "none",
              prefix |-> (IF sequence_ # None THEN <<"sequence">> ELSE <<>>)
                         \o <<"service", "path_size", "class_type", "class",
                              "instance_type", "instance">>,
              mr |-> <<pack_uint(ToWide(Len(rp_list)))>>
                     \o [i \in 1..Len(offsets) |->
                            pack_uint(ToWide(offsets[i]))]
                     \o rp_list]

BuildMultipleService ==
    Apply("build_multiple_service",
          build_multiple_service(args.rp_list, args.sequence))

InitService == InitCall(ServiceInputs)

NextService == BuildMultipleService

SpecService == InitService /\ [][NextService]_vars


\* ------------------------------------------------ member chains of a tag
\* A tag name is written as the sequence of its pieces: names, numbers
\* (as digit strings) and the separators ".", "{", "}", "[", "]".
Digits == {"0", "3"}

int(t) == IF t = "0" THEN 0 ELSE IF t = "1" THEN 1 ELSE IF t = "2" THEN 2
          ELSE 3

isdigit(s) == Len(s) = 1 /\ s[1] \in {"0", "1", "2", "3"}

\* sep.join(parts)
RECURSIVE join(_, _)
join(sep, parts) ==
    IF parts = <<>> THEN <<>>
    ELSE IF Len(parts) = 1 THEN parts[1]
    ELSE parts[1] \o sep \o join(sep, Tail(parts))

\* s.split(sep)
RECURSIVE split(_, _)
split(s, sep) ==
    IF \A i \in 1..Len(s) : s[i] # sep THEN <<s>>
    ELSE LET i == CHOOSE j \in 1..Len(s) :
                      s[j] = sep /\ \A k \in 1..(j - 1) : s[k] # sep
         IN  <<SubSeq(s, 1, i - 1)>> \o split(SubSeq(s, i + 1, Len(s)), sep)

\* What is requested: the base tag B, a chain of member names, a last
\* numeric component or None, a number of elements; and what the cached
\* tag definitions say of the chain: whether it is defined, and the data
\* type of its last member.
ChainInputs ==
    [attrs : UNION {[1..k -> {"m", "s"}] : k \in 0..MaxMembers},
     digit : Digits \cup {"None"}, elements : {1, 2},
     data_type : {"DINT", "DWORD"}, known : BOOLEAN]

\* The requested name, e.g. B.m.s.3{2}
chain_name(a) ==
    join(<<".">>, <<<<"B">>>> \o [i \in 1..Len(a.attrs) |-> <<a.attrs[i]>>]
                  \o (IF a.digit = "None" THEN <<>> ELSE <<<<a.digit>>>>))
    \o (IF a.elements = 1 THEN <<>> ELSE <<"{", "2", "}">>)

\* LogixDriver._parse_tag_request on the name tag_name; a tells what
\* _get_tag_info finds.  Any exception inside becomes RequestError.
parse_tag_chain(tag_name, a) ==
    LET braces   == tag_name # <<>> /\ tag_name[Len(tag_name)] = "}"
                    /\ \E i \in 1..Len(tag_name) : tag_name[i] = "{"
        tag0     == IF braces THEN split(tag_name, "{")[1] ELSE tag_name
        elements == IF braces
                    THEN int(split(tag_name, "{")[2][1])
                    ELSE 1
        parts    == split(tag0, ".")
        base     == parts[1]
        attrs0   == Tail(parts)
        hasbit   == attrs0 # <<>> /\ isdigit(attrs0[Len(attrs0)])
        attrs    == IF hasbit THEN SubSeq(attrs0, 1, Len(attrs0) - 1)
                    ELSE attrs0
        bit      == IF hasbit THEN <<"bit", int(attrs0[Len(attrs0)][1])>>
                    ELSE <<"None", 0>>
        tag1     == IF ~hasbit THEN tag0
                    ELSE IF attrs = <<>> THEN base
                    ELSE base \o <<".">> \o join(<<>>, attrs)
    IN  IF ~a.known
        THEN [exc |-> "RequestError", tag |-> <<>>, bit |-> <<"None", 0>>,
              elements |-> 0]
        ELSE IF a.data_type = "DWORD" /\ elements = 1
        THEN [exc |-> "none", tag |-> tag1 \o <<"[", "0", "]">>,
              bit |-> <<"bool_array", 0>>, elements |-> 1]
        ELSE [exc |-> "none", tag |-> tag1, bit |-> bit,
              elements |-> elements]

ParseTagChain ==
    Apply("_parse_tag_request", parse_tag_chain(chain_name(args), args))

InitChain == InitCall(ChainInputs)

NextChain == ParseTagChain

SpecChain == InitChain /\ [][NextChain]_vars


\* ------------------------------------------------------ results of read()
\* One requested name of a read() call as parsed: the DINT tag A, its bit
\* 0, the structure S, 126 elements of S (more than a packet holds), or a
\* name that does not parse.
ResultItems ==
    [plc_tag : {"A"}, elements : {1}, bit : {None, 0}, error : {FALSE},
     fits : {TRUE}]
    \cup [plc_tag : {"S"}, elements : {1, 126}, bit : {None},
          error : {FALSE}, fits : {TRUE}]
    \cup [plc_tag : {"A"}, elements : {0}, bit : {None}, error : {TRUE},
          fits : {TRUE}]

ResultKeys == {<<"A", 1>>, <<"S", 1>>, <<"S", 126>>}

\* A read() call: the requested names, the service status the controller
\* gives to each tag, and the requests (by position in the list handed to
\* _send_requests) whose send() raises.
ResultInputs ==
    [tags : UNION {[1..n -> ResultItems] : n \in 1..MaxTags},
     status : [ResultKeys -> {0, OtherStatus}],
     raises : SUBSET {1, 2}]

\* The name the caller gave, and the name of the tag alone.
requested_name(item) == <<item.plc_tag, item.elements, item.bit>>
plc_name(key) == <<key[1], 1, None>>

\* Tag(tag, value, type, error)
Tag(tag, value, type, error) ==
    [tag |-> tag, value |-> value, type |-> type, error |-> error]

\* The value the controller holds for a key.
controller_value(key) == <<"value", key>>

\* Truth of a Tag: it holds a value and no error.
tag_bool(t) == t.error = "None"

\* LogixDriver._send_requests for the request at position j: the entries
\* it stores in results.  send() raising gives every tag of the request
\* the error; otherwise each tag gets its value or the error of its
\* service status.
send_request_results(req, j, a) ==
    [key \in {req.tags[i] : i \in 1..Len(req.tags)} |->
        IF j \in a.raises
        THEN Tag(plc_name(key), "None", "None", "CommError")
        ELSE IF a.status[key] = 0
        THEN Tag(plc_name(key), controller_value(key), "type", "None")
        ELSE Tag(plc_name(key), "None", "None", "service error")]

\* LogixDriver._send_requests: the results of the requests from position
\* j on are stored over those in results.
RECURSIVE send_requests_results(_, _, _, _)
send_requests_results(reqs, j, a, results) ==
    IF j > Len(reqs) THEN results
    ELSE LET new == send_request_results(reqs[j], j, a)
         IN  send_requests_results(reqs, j + 1, a,
                 [key \in DOMAIN results \cup DOMAIN new |->
                     IF key \in DOMAIN new THEN new[key] ELSE results[key]])

\* Variant of the result loop of read() that appends nothing for a name
\* that did not parse or has no result.
RECURSIVE read_loop_skips_invalid(_, _, _)
read_loop_skips_invalid(tags_obj, read_results_obj, results) ==
    IF tags_obj = <<>> THEN results
    ELSE LET request_data == Head(tags_obj)
             tag == requested_name(request_data)
             key == mkkey(request_data)
             rec ==
                 IF request_data.error \/ key \notin DOMAIN read_results_obj
                 THEN <<>>
                 ELSE LET r == read_results_obj[key]
                      IN  IF request_data.bit = None THEN <<r>>
                          ELSE IF tag_bool(r)
                          THEN <<Tag(tag, <<"bit", r.value>>, "BOOL", "None")>>
                          ELSE <<Tag(tag, "None", "None", r.error)>>
         IN  read_loop_skips_invalid(Tail(tags_obj), read_results_obj,
                                     results \o rec)

\* The result loop of LogixDriver.read: one Tag is appended for each
\* requested name, in the order of the call.
RECURSIVE read_loop(_, _, _)
read_loop(tags_obj, read_results_obj, results) ==
    IF tags_obj = <<>> THEN results
    ELSE LET request_data == Head(tags_obj)
             tag == requested_name(request_data)
             key == mkkey(request_data)
             rec ==
                 IF request_data.error \/ key \notin DOMAIN read_results_obj
                 THEN Tag(tag, "None", "None", "Invalid tag request")
                 ELSE LET r == read_results_obj[key]
                      IN  IF request_data.bit = None THEN r
                          ELSE IF tag_bool(r)
                          THEN Tag(tag, <<"bit", r.value>>, "BOOL", "None")
                          ELSE Tag(tag, "None", "None", r.error)
         IN  read_loop(Tail(tags_obj), read_results_obj,
                       Append(results, rec))

\* LogixDriver.read: the requests built, and what is returned.
read(a) ==
    LET requests == read_build_requests(ReadPlanStart, a.tags,
                                        connection_size)
        read_results_obj == send_requests_results(requests, 1, a, <<>>)
    IN  [requests |-> requests,
         results |-> read_loop(a.tags, read_results_obj, <<>>)]

ReadCall == Apply("read", read(args))

InitResults == InitCall(ResultInputs)

NextResults == ReadCall

SpecResults == InitResults /\ [][NextResults]_vars


\* ----------------------------------------------------- results of write()
\* One (tag, value) pair of a write() call: the integer tag F or one of
\* its bits with the value given for it, or the integer tag G.
WrittenItems ==
    [plc_tag : {"F"}, typ : {"bit"}, bit : {None, 0, 3}, value : BOOLEAN,
     big : {FALSE}, error : {FALSE}]
    \cup [plc_tag : {"G"}, typ : {"bit"}, bit : {None}, value : {TRUE},
          big : {FALSE}, error : {FALSE}]

\* A write() call: the pairs given, and the service status the controller
\* gives to the sub-requests of each tag.
WrittenInputs ==
    [tags_values : UNION {[1..n -> WrittenItems] : n \in 1..MaxTags},
     status : [{"F", "G"} -> {0, OtherStatus}]]

\* parsed_requests of write(): one entry for each name, in the order in
\* which the names first appear, holding the value last given for the name.
parsed_requests(tvs) ==
    LET first == {i \in 1..Len(tvs) :
                     \A j \in 1..(i - 1) : WriteName(tvs[j]) # WriteName(tvs[i])}
        last(i) == CHOOSE j \in 1..Len(tvs) :
                       /\ WriteName(tvs[j]) = WriteName(tvs[i])
                       /\ \A k \in (j + 1)..Len(tvs) :
                              WriteName(tvs[k]) # WriteName(tvs[i])
        ord == AscendingSeq(first)
    IN  [n \in 1..Len(ord) |-> tvs[last(ord[n])]]

\* LogixDriver._send_requests on the write requests: one Tag for every
\* (plc_tag, elements) that a sub-request was sent for.
write_send_results(requests, status) ==
    LET sent == {requests[j].subs[i].plc_tag :
                    <<j, i>> \in {p \in (1..Len(requests)) \X (1..MaxTags) :
                                     p[2] <= Len(requests[p[1]].subs)}}
    IN  [key \in {<<t, 1>> : t \in sent} |->
            IF status[key[1]] = 0
            THEN Tag(key[1], "sent", "type", "None")
            ELSE Tag(key[1], "None", "None", "service error")]

\* The result loop of LogixDriver.write: each pair gets the result stored
\* under its (plc_tag, elements) with the tag and the value of the pair
\* put in.
write_loop(tvs, write_results) ==
    [i \in 1..Len(tvs) |->
        LET key == <<tvs[i].plc_tag, 1>>
        IN  IF tvs[i].error \/ key \notin DOMAIN write_results
            THEN Tag(WriteName(tvs[i]), "None", "None", "Invalid tag request")
            ELSE IF tvs[i].bit # None
            THEN [write_results[key] EXCEPT !.tag = WriteName(tvs[i]),
                                            !.type = "BOOL",
                                            !.value = tvs[i].value]
            ELSE [write_results[key] EXCEPT !.tag = tvs[i].plc_tag,
                                            !.value = tvs[i].value]]

\* LogixDriver.write: the requests built, and what is returned.
write(a) ==
    LET requests == write_build_requests(WritePlanStart,
                                         parsed_requests(a.tags_values))
        write_results == write_send_results(requests, a.status)
    IN  [requests |-> requests,
         results |-> write_loop(a.tags_values, write_results)]

WriteCall == Apply("write", write(args))

InitWritten == InitCall(WrittenInputs)

NextWritten == WriteCall

SpecWritten == InitWritten /\ [][NextWritten]_vars


\* ------------------------------------------------ start instances of a scan
\* One tag scan: the controller's symbol table, the number of records it
\* puts in one reply, and the requests (by position) that it answers with
\* status "more packets" and no record at all.
PageInputs ==
    [table : SUBSET ScanIds, k : 1..MaxPage, empty : SUBSET (1..MaxFrag)]

\* The reply to request n of the scan.
page_reply(a, n, start) ==
    IF n \in a.empty THEN [records |-> <<>>, status |-> MorePackets]
    ELSE symbol_reply(a.table, start, a.k)

\* The loop of _get_instance_attribute_list_service from request n on:
\* starts lists the instance carried by each request sent so far.
RECURSIVE scan_pages(_, _, _, _, _)
scan_pages(a, n, last_instance, tag_list, starts) ==
    IF last_instance = -1
    THEN [exc |-> "none", tag_list |-> tag_list, starts |-> starts]
    ELSE IF pack_uint_fails(last_instance)
    THEN [exc |-> "DataError", tag_list |-> tag_list, starts |-> starts]
    ELSE LET r == parse_instance_attribute_list(
                      page_reply(a, n, last_instance), tag_list)
         IN  scan_pages(a, n + 1, r.last_instance, r.tag_list,
                        Append(starts, last_instance))

ScanPages == Apply("_get_instance_attribute_list_service",
                   scan_pages(args, 1, 0, <<>>, <<>>))

InitPages == InitCall(PageInputs)

NextPages == ScanPages

SpecPages == InitPages /\ [][NextPages]_vars


\* ------------------------------------------------------------------- claims
Range(q) == {q[i] : i \in 1..Len(q)}

ConnectedOps == {"read", "write", "get_tag_list", "get_plc_info",
                 "get_plc_name"}

\* C1: every connected (send_unit_data) request issued by read, write,
\* get_tag_list, get_plc_info or get_plc_name is preceded, on the current
\* connection, by a Forward Open that succeeded; and when forward_open
\* returns False the operation raises DataError and sends no connected
\* message.
C1_ForwardOpenBeforeConnected ==
    op \in ConnectedOps =>
        /\ ~orphan
        /\ fo_false => /\ exc = "DataError"
                       /\ "send_unit_data" \notin Range(trace)

\* The part of C1 that the code keeps: no connected message without a live
\* Forward Open, and none after forward_open returned False.
C1_NoOrphanConnectedMessage ==
    op \in ConnectedOps \cup {"read_tag"} =>
        /\ ~orphan
        /\ fo_false => "send_unit_data" \notin Range(trace)

\* close() hands its requests to the socket in the order Forward Close,
\* UnRegister Session, socket close.
CloseOrder(t) ==
    \A i, j \in 1..Len(t) :
        i < j => \/ t[i] = "forward_close" /\ t[j] # "forward_close"
                 \/ t[i] = "unregister_session" /\ t[j] = "sock.close"

\* C2: close() attempts Forward Close, UnRegister Session and the socket
\* close in that order; the socket close is attempted whenever there is a
\* socket, also when an earlier step raised; every error raised on the way
\* is collected and reported in one CommError, raised after the state has
\* been cleaned up.
C2_CloseOrderAndErrors ==
    [][op' = "close" =>
          /\ CloseOrder(trace')
          /\ sock # "None" =>
                 /\ trace' # <<>>
                 /\ trace'[Len(trace')] = "sock.close"
          /\ io_failed' => errs' # <<>>
          /\ exc' = (IF errs' # <<>> THEN "CommError" ELSE "none")
          /\ sock' = "None" /\ ~target_is_connected'
          /\ session' = 0 /\ ~connection_opened']_vars

\* A close() in which the Forward Close raised, the socket close was still
\* attempted and failed too, and both errors were reported.
C2_Witness ==
    /\ op = "close"
    /\ trace = <<"forward_close", "sock.close">>
    /\ Len(errs) = 2
    /\ exc = "CommError"

\* C3: on close() with a registered session and an open connection,
\* UnRegister Session is still sent when a socket send/receive failed in
\* the preceding Forward Close.
C3_UnregisterAfterFailedForwardClose ==
    [][(/\ op' = "close"
        /\ target_is_connected
        /\ session \in Handles
        /\ io_failed')
          => "unregister_session" \in Range(trace')]_vars

\* C4: over open / forward_open / forward_close / close calls, close() sends
\* a Forward Close if and only if a Forward Open has succeeded on the
\* connection and no Forward Close has succeeded since.
C4_ForwardCloseIffOpen ==
    [][op' = "close" =>
          (("forward_close" \in Range(trace')) <=> fo_live)]_vars

\* A close() that sent the Forward Close of a live connection.
C4_Witness ==
    /\ op = "close"
    /\ "forward_close" \in Range(trace)

\* C5: over open / register_session / un_register_session / close calls,
\* close() sends UnRegister Session if and only if a session is registered:
\* Register Session succeeded and no UnRegister Session has been sent since.
C5_UnregisterIffRegistered ==
    [][op' = "close" =>
          (("unregister_session" \in Range(trace')) <=> registered)]_vars

\* A close() after an explicit un_register_session(): the handle is None,
\* the second UnRegister fails in the header and only the socket is closed.
C5_Witness ==
    /\ op = "close"
    /\ errs = <<"CommError:encode">>
    /\ trace = <<"sock.close">>

\* C6: when a socket send or receive fails during a request, the driver
\* ends in the CLOSED state: not connected, session handle 0, no open
\* target connection.
C6_IoFailureCloses ==
    io_failed => /\ ~connection_opened
                 /\ session = 0
                 /\ ~target_is_connected

C8_SequenceNeverZero ==
    hist.last # None => hist.last \in 1..SeqLimit

\* C9: with two threads inside _get_sequence, under every interleaving of
\* its steps the counter never exceeds 65535 (the seed taken from the pid
\* aside).
C9_SequenceWithin16Bits ==
    sequence <= SeqLimit \/ sequence = pid

\* C10: forward_open called while no session is registered raises the
\* session-not-registered CommError and sends nothing.
C10_ForwardOpenNeedsSession ==
    [][(op' = "forward_open" /\ ~registered)
          => /\ exc' = "CommError:session"
             /\ trace' = <<>>]_vars

\* C11: register_session sends a Register Session request only when no
\* session handle is held; after a successful reply the stored handle is the
\* handle carried in the reply header, and after an unsuccessful reply the
\* handle is 0 and None is returned.
C11_RegisterSessionHandle ==
    [][op' = "register_session" =>
          /\ ("register_session" \in Range(trace'))
                 => session \in {0, None}
          /\ (reply'.received /\ reply'.ok)
                 => session' = reply'.session /\ ret' = "session"
          /\ (reply'.received /\ ~reply'.ok)
                 => session' = 0 /\ ret' = "None"]_vars

\* A register_session() call made after un_register_session() left the
\* handle None, answered with an error status: the handle is back to 0.
C11_Witness ==
    /\ op = "register_session"
    /\ reply.received /\ ~reply.ok
    /\ session = 0 /\ ret = "None"
    /\ trace = <<"register_session">>

\* C19: a transport or encapsulation error raised while sending one of the
\* requests of a read() or write() call aborts the call: the call raises
\* and hands no further request to the socket.
C19_TransportErrorAborts ==
    [][(op' \in {"read", "write"} /\ io_failed')
          => /\ exc' # "none"
             /\ ~after_fail']_vars

\* C12: a reconnect clears the cached catalog: after close() followed by a
\* successful open() the tag definitions hold nothing from the previous
\* connection.
C12_ReconnectClearsCaches ==
    [][(op = "close" /\ op' = "open" /\ exc' = "none") => tags' = {}]_vars

\* What a scan returns when the controller can put the whole symbol table
\* in one reply.
SinglePageScan == symbol_reply(symbols, 0, Cardinality(symbols)).records

\* C20: for every symbol table and every page size of at least one record,
\* a tag scan whose requests are all answered returns every symbol exactly
\* once: the list equals the one of a single-page scan.
C20_PagedScanEqualsSinglePage ==
    [][(/\ op' = "get_tag_list"
        /\ target_is_connected
        /\ ~io_failed' /\ ~bad_reply')
          => /\ exc' = "none"
             /\ ret_tags' = SinglePageScan]_vars

\* Sum of the return sizes of the reads held by a request.
RECURSIVE SumSizes(_)
SumSizes(ts) ==
    IF ts = <<>> THEN 0
    ELSE tag_return_size(tag_info(Head(ts)[1])) * Head(ts)[2]
         + SumSizes(Tail(ts))

\* The parsed reads of the call, as keys.
ReadKeys == {mkkey(read_tags[i]) : i \in {n \in 1..Len(read_tags) :
                                             ~read_tags[n].error}}

KeySize(key) == tag_return_size(tag_info(key[1])) * key[2]

\* Number of places (request, position) at which requests of the given
\* type hold the key.
Places(reqs, type_, key) ==
    Cardinality({<<j, i>> \in (1..Len(reqs)) \X (1..MaxTags) :
                    /\ reqs[j].type_ = type_
                    /\ i <= Len(reqs[j].tags)
                    /\ reqs[j].tags[i] = key})

\* C15: every Multiple Service Packet built by the read planner holds reads
\* whose return sizes sum to at most connection_size.
C15_PacketWithinBudget ==
    \A j \in 1..Len(read_requests) :
        read_requests[j].type_ = "multi"
            => SumSizes(read_requests[j].tags) <= connection_size

\* A plan with a packet that holds two reads and a second packet started
\* because the budget would have been exceeded.
C15_Witness ==
    /\ Len(read_requests) >= 2
    /\ \E j \in 1..Len(read_requests) :
           /\ read_requests[j].type_ = "multi"
           /\ Len(read_requests[j].tags) >= 2
    /\ \A i \in 1..Len(read_tags) : read_tags[i].fits
    /\ \A j \in 1..Len(read_requests) : read_requests[j].type_ = "multi"

BitWrites(t) ==
    {i \in 1..Len(write_tags) :
        /\ ~write_tags[i].error
        /\ write_tags[i].plc_tag = t
        /\ write_tags[i].bit # None}

\* The Read-Modify-Write sub-requests built for the tag.
Rmws(t) ==
    {<<j, i>> \in (1..Len(write_requests)) \X (1..MaxTags) :
        /\ i <= Len(write_requests[j].subs)
        /\ write_requests[j].subs[i].kind = "rmw"
        /\ write_requests[j].subs[i].plc_tag = t}

\* C13: for the bit writes given against one plc_tag in one write() call
\* the planner emits exactly one Read-Modify-Write for the tag, whose
\* or_mask has a 1 at exactly the bits written true and whose and_mask has
\* a 0 at exactly the bits written false.
C13_BitWritesMerged ==
    write_requests # <<>> =>
        \A t \in WriteTags :
            BitWrites(t) # {} =>
                /\ Cardinality(Rmws(t)) = 1
                /\ \A p \in Rmws(t) :
                       LET sub == write_requests[p[1]].subs[p[2]]
                       IN  /\ sub.or_mask =
                                {write_tags[i].bit : i \in
                                    {n \in BitWrites(t) : write_tags[n].value}}
                           /\ sub.and_mask = MaskBits \
                                {write_tags[i].bit : i \in
                                    {n \in BitWrites(t) : ~write_tags[n].value}}

C18_PerTagStatus ==
    multi_results # <<>> =>
        \A i \in 1..Len(sub_replies) :
            LET sub == sub_replies[i]
                res == multi_results[sub.tag]
            IN  IF sub.service_status = 0
                THEN res = [tag |-> sub.tag, value |-> sub.value,
                            error |-> None]
                ELSE res = [tag |-> sub.tag, value |-> None,
                            error |-> sub.service_status]

\* A reply in which one sub-reply has an error status and another one
\* carries a value, after _send_requests has made the results.
C18_Witness ==
    /\ multi_results # <<>>
    /\ \E i, j \in 1..Len(sub_replies) :
           /\ sub_replies[i].service_status # 0
           /\ sub_replies[j].service_status = 0
           /\ multi_results[sub_replies[i].tag].error # None
           /\ multi_results[sub_replies[j].tag].value
                  = sub_replies[j].value

\* C21: a Get Instance Attributes List reply whose status is neither 0x00
\* nor 0x06 makes the tag scan fail with an error; the scan does not return
\* the tags collected so far.
C21_OtherStatusFailsScan ==
    (op = "get_tag_list" /\ bad_reply) => (exc # "none" /\ ret # "tags")

\* The second request of a scan was answered with such a status after the
\* first reply had delivered records.
C21_Witness ==
    /\ op = "get_tag_list" /\ bad_reply
    /\ Len(trace) = 2 /\ exc = "DataError"
    /\ symbols # {}

\* The data of the first n replies, in the order of the replies.
RECURSIVE InOrder(_, _)
InOrder(rs, n) ==
    IF n = 0 THEN <<>> ELSE InOrder(rs, n - 1) \o rs[n].data

\* C22: reading a template issues one request per reply up to and including
\* the first reply whose status is not 0x06; the offset of each request is
\* the number of template bytes received before it and its size is
\* ((object_definition_size * 4) - 21) - offset; on status 0x00 the result
\* is the data of all replies concatenated in order.
C22_TemplateReadOffsets ==
    call = "_read_template" =>
        LET rs == args.replies
            n  == Len(result.requests)
        IN  /\ n = Len(rs)
            /\ \A i \in 1..n :
                  /\ result.requests[i].offset = Received(rs, i - 1)
                  /\ result.requests[i].size =
                        template_size(args.object_definition_size)
                            - result.requests[i].offset
            /\ rs[n].status = 0 =>
                  /\ result.exc = "none"
                  /\ result.ret = InOrder(rs, n)

\* A template read in three requests, the first reply shorter than asked.
C22_Witness ==
    /\ call = "_read_template"
    /\ Len(result.requests) = 3
    /\ result.requests[2].offset = 1
    /\ result.requests[3].offset = 3
    /\ result.exc = "none"
    /\ result.ret = <<1, 2, 2, 3>>

\* C23: resolving a structure type ends by itself for every finite set of
\* templates, cyclic ones included: memoization keeps a template that is
\* still being resolved from being entered again, so the nesting never
\* reaches the interpreter's recursion limit.
C23_ResolutionTerminates ==
    call = "_get_data_type" =>
        (~result.reentered /\ ~result.recursion_error)

\* The data bytes read_array returned: the bytes themselves (raw) or the
\* values of the (index, value) pairs.
ReturnedData ==
    IF args.raw THEN result.ret
    ELSE [i \in 1..Len(result.ret) |-> result.ret[i][2]]

\* C24: a fragmented read issues one request per reply up to and including
\* the first reply whose status is not 0x06; the byte offset of the first
\* request is 0 and the offset of every later request is the number of data
\* bytes received before it; on status 0x00 the read returns the data of
\* all replies concatenated in order.
C24_FragmentedReadOffsets ==
    call = "read_array" =>
        LET rs == args.replies
            n  == Len(result.offsets)
        IN  /\ n = Len(rs)
            /\ \A i \in 1..n : result.offsets[i] = Received(rs, i - 1)
            /\ rs[n].status = 0 =>
                  /\ result.exc = "none"
                  /\ ReturnedData = InOrder(rs, n)

\* C25: for a tag T of an atomic integer type and a bit index n within the
\* type's width, read('T.n') reads T and returns a BOOL equal to bit n of
\* T's value.
C25_BitOfInteger ==
    (call = "read" /\ args.name = "T") =>
        /\ result.plc_tag.name = "T"
        /\ result.val = (args.digits \in args.memory[1])

\* C26: a request for Array[i] of a BOOL array stored as DWORDs addresses
\* element i div 32; the bit read, and the bit set or cleared in the write
\* masks, is bit i mod 32 of that element.
C26_BoolArrayIndex ==
    (call = "read" /\ args.name = "Array") =>
        LET i == args.index
            m == result.bit_writes[1]
        IN  /\ result.plc_tag = [name |-> "Array", index |-> i \div 32]
            /\ result.val = ((i % 32) \in args.memory[(i \div 32) + 1])
            /\ Len(result.bit_writes) = 1
            /\ m.or_mask = IF args.value THEN {i % 32} ELSE {}
            /\ m.and_mask = IF args.value THEN MaskBits
                            ELSE MaskBits \ {i % 32}

\* Array[37] was rewritten to Array[1], bit 5, which is set in the
\* controller and is written true.
C26_Witness ==
    /\ call = "read" /\ args.name = "Array" /\ args.index = 37
    /\ result.plc_tag.index = 1
    /\ args.memory = <<{}, {5}>>
    /\ result.val = TRUE
    /\ args.value /\ result.bit_writes[1].or_mask = {5}

\* C27: the base segment of a request path is the Symbol Object instance
\* segment only when the firmware major version has been read and is at
\* least v21 and the base tag is in the cached tag list; otherwise it stays
\* symbolic.
C27_InstanceSegmentOnlyFromV21 ==
    (call = "create_tag_rp" /\ result.base_segment = "instance") =>
        /\ args.init_info
        /\ args.version_major >= MinVerInstanceIds
        /\ args.base \in result.tag_names

\* The index is within 0..4294967295.
IndexInRange(v) == LessEq(Wide(0, 0), v) /\ LessEq(v, Wide(65535, 65535))

\* The element-id segment of an index v within range: 0x28 v, 0x29 0x00
\* and v as little-endian u16, 0x2A 0x00 and v as little-endian u32.
ElementSegment(v) ==
    IF v.hi = 0 /\ v.lo <= 255 THEN <<40, v.lo>>
    ELSE IF v.hi = 0 THEN <<41, 0, v.lo % 256, v.lo \div 256>>
    ELSE <<42, 0, v.lo % 256, v.lo \div 256, v.hi % 256, v.hi \div 256>>

RECURSIVE ElementSegments(_)
ElementSegments(index) ==
    IF index = <<>> THEN <<>>
    ELSE ElementSegment(Head(index)) \o ElementSegments(Tail(index))

\* C28: every index within 0..4294967295 is encoded as the element-id
\* segment of its size class; an index outside that range is rejected with
\* an encode error and no request path is produced.
C28_ElementIdSegments ==
    call = "_encode_tag_index" =>
        IF \A i \in 1..Len(args) : IndexInRange(args[i])
        THEN result.exc = "none" /\ result.path = ElementSegments(args)
        ELSE result.exc # "none" /\ result.path = None

\* C29: for a program given with or without the 'Program:' prefix, or
\* '*', every returned program-scoped tag is named
\* 'Program:<program>.<tag_name>'.
C29_ProgramTagNames ==
    call = "get_tag_list" =>
        \A i \in 1..Len(result.tags) :
            result.tags[i].instance_id > 100 =>
                \E j \in 1..Len(args.main) :
                    /\ args.main[j].instance_id = result.tags[i].instance_id
                    /\ result.tags[i].tag_name =
                          <<"Program:", "Main", ".">> \o args.main[j].tag_name

\* The record stays in the user tag list.
KeptRecord(r) ==
    ~in_colon(r.tag_name) /\ ~in_dunder(r.tag_name) /\ 12 \notin r.symbol_type

InstanceIds(rs) == [i \in 1..Len(rs) |-> rs[i].instance_id]

RECURSIVE ProgramNamesOf(_)
ProgramNamesOf(scans) ==
    IF scans = <<>> THEN <<>>
    ELSE LET ps == SelectSeq(Head(scans).all_tags,
                             LAMBDA r : in_program(r.tag_name))
         IN  [i \in 1..Len(ps) |-> ps[i].tag_name]
                 \o ProgramNamesOf(Tail(scans))

\* C30: the user tag list of a scan holds exactly the scanned records whose
\* name contains neither ':' nor '__' and whose symbol-type bit 12 is
\* clear, in scan order; every scanned record whose name contains
\* 'Program:' is recorded as a program name.
C30_UserTagFilter ==
    call = "get_tag_list" =>
        /\ \A n \in 1..Len(result.scans) :
              InstanceIds(result.scans[n].user_tags) =
                  InstanceIds(SelectSeq(result.scans[n].all_tags, KeptRecord))
        /\ result.program_names = ProgramNamesOf(result.scans)

\* A scan of the controller scope met a program, a module tag, a hidden tag
\* or a system tag, and a user tag that it kept.
C30_Witness ==
    /\ call = "get_tag_list" /\ args.program = <<>>
    /\ Len(args.controller) = 3
    /\ result.program_names = <<<<"Program:", "Main">>>>
    /\ Len(result.tags) = 1
    /\ \E i \in 1..3 : ~KeptRecord(args.controller[i])
                       /\ ~in_program(args.controller[i].tag_name)

\* C31: the two requested-packet-interval fields of the Forward Open
\* request hold the configured rpi option (milliseconds) times 1000, for
\* every configured rpi.
C31_RpiInMicroseconds ==
    call = "forward_open" =>
        /\ result.ot_rpi = pack_dint(ToWide(args.rpi * 1000))
        /\ result.to_rpi = pack_dint(ToWide(args.rpi * 1000))

\* The bytes of the fields fs, one after the other.
RECURSIVE Flatten(_)
Flatten(fs) == IF fs = <<>> THEN <<>> ELSE Head(fs) \o Flatten(Tail(fs))

\* The number held by a little-endian 16-bit field.
Uint16(b) == b[1] + (256 * b[2])

\* The total length of the first n sequences of fs.
RECURSIVE TotalLen(_, _)
TotalLen(fs, n) == IF n = 0 THEN 0 ELSE TotalLen(fs, n - 1) + Len(fs[n])

\* C32: for every list of n sub-requests build_multiple_service writes the
\* count n and then n offsets, offset i being 2 + 2n plus the length of the
\* sub-requests before sub-request i; counted from the start of the
\* service list each offset is where its sub-request starts, and the
\* offsets increase strictly.
C32_ServiceOffsets ==
    call = "build_multiple_service" =>
        LET rps  == args.rp_list
            n    == Len(rps)
            mr   == result.mr
            flat == Flatten(mr)
            off(i) == Uint16(mr[1 + i])
        IN  /\ result.exc = "none"
            /\ Len(mr) = 1 + (2 * n)
            /\ Uint16(mr[1]) = n
            /\ \A i \in 1..n :
                  /\ off(i) = 2 + (2 * n) + TotalLen(rps, i - 1)
                  /\ SubSeq(flat, off(i) + 1, off(i) + Len(rps[i])) = rps[i]
                  /\ i > 1 => off(i - 1) < off(i)

\* Three sub-requests of different lengths behind a sequence number.
C32_Witness ==
    /\ call = "build_multiple_service"
    /\ args.sequence # None
    /\ args.rp_list = <<<<1, 1>>, <<2>>, <<3, 3, 3>>>>
    /\ result.mr[2] = <<8, 0>>
    /\ result.mr[3] = <<10, 0>>
    /\ result.mr[4] = <<11, 0>>

\* C33: for a request B.m1.....mk.n with k >= 1 member names and a numeric
\* last component n the parser yields bit n and the plc_tag B.m1.....mk,
\* the member names still separated by ".".
C33_MemberChainKept ==
    (/\ call = "_parse_tag_request"
     /\ Len(args.attrs) >= 1 /\ args.digit # "None"
     /\ args.known /\ args.data_type # "DWORD") =>
        /\ result.exc = "none"
        /\ result.bit = <<"bit", int(args.digit)>>
        /\ result.tag = join(<<".">>, <<<<"B">>>>
                             \o [i \in 1..Len(args.attrs) |->
                                    <<args.attrs[i]>>])

\* The position of the request that holds the key.
HolderOf(reqs, key) ==
    CHOOSE j \in 1..Len(reqs) :
        \E i \in 1..Len(reqs[j].tags) : reqs[j].tags[i] = key

\* C34: read(t1, ..., tn) with n >= 2 returns exactly n Tag records, the
\* i-th answering the i-th requested tag whether that tag succeeded,
\* failed with a service status or did not parse; a failure of one tag
\* neither removes nor reorders the records of the others.
C34_OneRecordPerTagInOrder ==
    (call = "read" /\ Len(args.tags) >= 2) =>
        /\ Len(result.results) = Len(args.tags)
        /\ \A i \in 1..Len(args.tags) :
              LET t   == args.tags[i]
                  rec == result.results[i]
                  key == mkkey(t)
              IN  IF t.error
                  THEN rec.tag = requested_name(t) /\ rec.error # "None"
                  ELSE /\ rec.tag \in {requested_name(t), plc_name(key)}
                       /\ IF HolderOf(result.requests, key) \in args.raises
                             \/ args.status[key] # 0
                          THEN rec.error # "None" /\ rec.value = "None"
                          ELSE /\ rec.error = "None"
                               /\ rec.value \in
                                      {controller_value(key),
                                       <<"bit", controller_value(key)>>}

\* A name that does not parse, then a tag that fails with a service
\* status, then a tag that succeeds.
C34_Witness ==
    /\ call = "read"
    /\ Len(args.tags) = 3
    /\ args.tags[1].error
    /\ mkkey(args.tags[2]) = <<"S", 1>> /\ args.status[<<"S", 1>>] # 0
    /\ mkkey(args.tags[3]) = <<"A", 1>> /\ args.status[<<"A", 1>>] = 0
    /\ args.raises = {}
    /\ result.results[1].error = "Invalid tag request"
    /\ result.results[2].error = "service error"
    /\ result.results[3].value = controller_value(<<"A", 1>>)

\* The sub-requests of the requests.
SubsOf(requests) ==
    {requests[p[1]].subs[p[2]] :
        p \in {q \in (1..Len(requests)) \X (1..MaxTags) :
                  q[2] <= Len(requests[q[1]].subs)}}

\* C35: every Tag that write() returns without an error carries a value
\* that was encoded into a request sent for its tag: a bit write reported
\* as done is in the masks of the Read-Modify-Write that was sent, also
\* when one tag is given several times with different values.
C35_ReportedWritesWereSent ==
    call = "write" =>
        \A i \in 1..Len(args.tags_values) :
            result.results[i].error = "None" =>
                LET tv == args.tags_values[i]
                IN  \E sub \in SubsOf(result.requests) :
                        /\ sub.plc_tag = tv.plc_tag
                        /\ IF tv.bit = None THEN sub.kind = "write"
                           ELSE /\ sub.kind = "rmw"
                                /\ tv.value => tv.bit \in sub.or_mask
                                /\ ~tv.value => tv.bit \notin sub.and_mask

\* C36: every Multiple Service Packet that the read or the write planner
\* puts in the list handed to _send_requests holds at least one
\* sub-request, whatever the call: also when every tag is oversize, every
\* tag is invalid, or every write is a bit write.
C36_NoEmptyMultiRequest ==
    /\ \A j \in 1..Len(read_requests) :
           read_requests[j].type_ = "multi" => read_requests[j].tags # <<>>
    /\ \A j \in 1..Len(write_requests) :
           write_requests[j].type_ = "multi" => write_requests[j].subs # <<>>

\* The programs of the controller: the records of its scope whose name
\* contains 'Program:'.
ProgramsOf(controller) ==
    {i \in 1..Len(controller) : in_program(controller[i].tag_name)}

\* C37: after any sequence of get_tag_list calls on one driver,
\* get_tag_list('*') scans each program of the controller exactly once, so
\* that the returned list holds each program-scoped tag once.
C37_ProgramsScannedOnce ==
    call = "get_tag_list('*')" =>
        /\ Len(result.scans) = 1 + Cardinality(ProgramsOf(args.controller))
        /\ \A i, j \in 1..Len(result.tags) :
              result.tags[i].instance_id = result.tags[j].instance_id
                  => i = j

\* C38: during one tag scan the starting instance of each Get Instance
\* Attributes List request is strictly greater than that of the request
\* before, for every reply with status 0x06 the controller may send, one
\* without records included: no record is visited twice.
C38_StartInstancesIncrease ==
    call = "_get_instance_attribute_list_service" =>
        \A i \in 2..Len(result.starts) :
            result.starts[i] > result.starts[i - 1]

\* C39: after close() has returned or raised, whichever step of the
\* teardown failed, the driver is inert (no socket, target not connected,
\* session handle 0, connected False), and an open() that follows starts
\* with a new socket connection.
C39_CloseLeavesInert ==
    op = "close" =>
        /\ sock = "None" /\ ~target_is_connected
        /\ session = 0 /\ ~connection_opened
        /\ \A o \in Outcomes, h \in Handles :
              LET r == open(Drv, "ok", o, h)
              IN  /\ Len(r.trace) = 2
                  /\ r.trace[1] = "sock.connect"
                  /\ r.trace[2] = "register_session"

\* A close() whose Forward Close failed on the socket: UnRegister Session
\* was not sent, the socket was closed, the error raised, and the driver
\* is inert.
C39_Witness ==
    /\ op = "close"
    /\ io_failed
    /\ trace = <<"forward_close", "sock.close">>
    /\ Len(errs) = 1
    /\ exc = "CommError"
    /\ sock = "None" /\ session = 0
    /\ ~connection_opened /\ ~target_is_connected

\* C40: between public method calls, whenever connected is True a session
\* is registered (the session handle is non-zero): an open() whose Register
\* Session fails does not leave the driver marked as opened.
C40_ConnectedImpliesSession ==
    connection_opened => (session # 0 /\ session # None)

====
